---- MODULE Spec2Model ----
(***************************************************************************)
(* UltraCompressPro v4.0.0: the size-targeting controller                   *)
(* (CompressionEngine.compress), its multi-scale fallback                   *)
(* (CompressionEngine.advancedOptimize), the per-preset loop                *)
(* (UltraCompressPro._processVersions) and the job that drives them         *)
(* (UltraCompressPro.compress); then, as calls of their own, the analyzer   *)
(* (ImageAnalyzer.analyze) and the canvas helpers (calculateDimensions,     *)
(* drawWithSmartCrop, detectEdges, applyColorQuantization, scaleCanvas,     *)
(* createOptimizedCanvas).                                                  *)
(*                                                                          *)
(* Numbers.  A quality is a JavaScript double in the source.  Every bound   *)
(* of the search is a multiple of 0.01 and the loop halves an interval at   *)
(* most nine times before its width is <= 0.002, so a quality is held here  *)
(* exactly, as an integer count of 1/256000: 0.01 = 2560, 0.002 = 512.      *)
(* Tolerances, slack and canvas scales are held in hundredths, and a        *)
(* comparison  size <= target * 1.12  is  size * 100 <= target * 112.       *)
(***************************************************************************)
EXTENDS Integers, Sequences, FiniteSets, TLC

VARIABLES
  pc,        \* position of the one job: see the actions
  enc,       \* the external encoder behind canvas.toBlob (environment)
  file,      \* compress(file, ..): the input
  opts,      \* compress(.., options): [quality, presets]
  analysis,  \* ImageAnalyzer.analyze's report, NoAnalysis before it ran
  i,         \* _processVersions: the loop index
  versions,  \* _processVersions: the list being built
  blob,      \* _processVersions: `let blob` of the current preset
  eng,       \* the frame of the running CompressionEngine.compress call
  ao,        \* the frame of the running advancedOptimize call
  ret,       \* the value the last returned engine call resolved with
  events,    \* every EventEmitter.emit of the instance, in order
  stats,     \* this.stats
  outcome,   \* how the compress promise settled
  failed,    \* history: indices of the presets whose iteration threw
  ctrl,      \* history: what the controller returned for the current preset
  util,      \* the frame of a direct call of ImageAnalyzer, ImageUtils,
             \* AdvancedProcessor or a canvas helper, NoCall outside one
  batch,     \* this._abortController and the compressMultiple calls
  emitter    \* EventEmitter: this.events and the emit in progress

vars == <<pc, enc, file, opts, analysis, i, versions, blob, eng, ao, ret,
          events, stats, outcome, failed, ctrl, util, batch, emitter>>

Max(a, b) == IF a >= b THEN a ELSE b
Min(a, b) == IF a <= b THEN a ELSE b

(***************************************************************************)
(* Bounds of the model.                                                     *)
(***************************************************************************)
MaxPresets == 2

\* one quality unit, and a quality given in hundredths
QUnit == 1000 * 256
Q(h) == h * (QUnit \div 100)

(***************************************************************************)
(* Constants of the source.                                                 *)
(***************************************************************************)
CompressionQuality == {"maximum", "high", "balanced", "aggressive", "extreme"}

\* variant of Epsilon: the loop runs while maxQuality - minQuality > 0
EpsilonNone == 0 * QUnit

\* while (.. && maxQuality - minQuality > 0.002)
Epsilon == (2 * QUnit) \div 1000
\* Math.max(0.02, ..) and Math.min(0.8, ..)
QualityFloor == Q(2)
QualityCeiling == Q(80)
\* variant of Slack: a slack of 1.25
SlackLoose == 100 + 25

\* if (blob.size > preset.targetSize * 1.12)
Slack == 112
\* the ladder of advancedOptimize, its last-resort scale and quality
scales == <<94, 90, 86, 82, 78, 74, 70, 66, 62, 58, 54, 50, 46, 42, 38, 35>>
LastResortScale == 32
LastResortQuality == Q(2)
\* this.config.maxFileSize
maxFileSize == 50 * 1024 * 1024

getQualityAdjustment(mode) ==
  CASE mode = "maximum"  -> [range |-> 20, boost |-> 6,   tolerance |-> 115, iterations |-> 10]
    [] mode = "high"     -> [range |-> 30, boost |-> 2,   tolerance |-> 110, iterations |-> 12]
    [] mode = "balanced" -> [range |-> 40, boost |-> -3,  tolerance |-> 103, iterations |-> 14]
    [] mode = "extreme"  -> [range |-> 60, boost |-> -15, tolerance |-> 88,  iterations |-> 24]
    [] OTHER             -> [range |-> 50, boost |-> -10, tolerance |-> 96,  iterations |-> 18]

(***************************************************************************)
(* ImageAnalyzer.  A probe is what the pixel loop of analyze counts on the  *)
(* sampleSize x sampleSize canvas: totalPixels, edges, uniqueColors and     *)
(* transparentPixels.  complexity = (edges / totalPixels) * 100 is held     *)
(* exactly, in units of 1/10000 of a point (CUnit), for every probe side    *)
(* that divides 1000: 5 is 5 * CUnit.  For these probes the comparisons of  *)
(* the double with 5, 10 and 20 agree with the exact ones.                  *)
(***************************************************************************)
CUnit == 100 * 100

complexityOf(edges, totalPixels) == edges * ((100 * CUnit) \div totalPixels)

\* Number.prototype.toFixed(2) then parseFloat: the nearest hundredth, as a
\* count of hundredths.  (Exact halves go the way the double leans; no probe
\* drawn below is one.)
toFixed2(c) == (c + (CUnit \div 200)) \div (CUnit \div 100)

ClassifyInclusive(uniqueColors, complexity) ==
  IF uniqueColors <= 256 THEN "graphic"
  ELSE IF complexity <= 5 * CUnit THEN "simple"
  ELSE IF complexity >= 20 * CUnit THEN "complex"
  ELSE "photo"

\* lines 231-237: the imageType chain
Classify(uniqueColors, complexity) ==
  IF uniqueColors < 256 THEN "graphic"
  ELSE IF complexity < 5 * CUnit THEN "simple"
  ELSE IF complexity > 20 * CUnit THEN "complex"
  ELSE "photo"

\* in hundredths: 65 is 0.65
calculateRecommendedQuality(complexity, imageType, hasTransparency) ==
  IF imageType = "graphic" \/ imageType = "simple" THEN 65
  ELSE IF hasTransparency /\ complexity < 10 * CUnit THEN 70
  ELSE IF complexity > 20 * CUnit THEN 48
  ELSE 58

calculateCompressibilityCumulative(uniqueColors, complexity) ==
  Min(100, 50 + (IF uniqueColors < 256 THEN 30 ELSE 0)
              + (IF uniqueColors < 1000 THEN 20 ELSE 0)
              + (IF uniqueColors < 5000 THEN 10 ELSE 0)
              + (IF complexity < 5 * CUnit THEN 20 ELSE 0)
              + (IF complexity < 10 * CUnit THEN 10 ELSE 0))

calculateCompressibility(uniqueColors, complexity) ==
  LET byColors == IF uniqueColors < 256 THEN 30
                  ELSE IF uniqueColors < 1000 THEN 20
                  ELSE IF uniqueColors < 5000 THEN 10
                  ELSE 0
      byComplexity == IF complexity < 5 * CUnit THEN 20
                      ELSE IF complexity < 10 * CUnit THEN 10
                      ELSE 0
  IN Min(100, 50 + byColors + byComplexity)

\* webp is what ImageUtils.isWebPSupported() answers
suggestFormat(imageType, hasTransparency, webp) ==
  IF hasTransparency THEN "png"
  ELSE IF imageType = "graphic" THEN "png"
  ELSE IF webp THEN "webp"
  ELSE "jpeg"

\* the report: the decisions are taken on the exact complexity, the field
\* `complexity` carries it rounded to two decimals
analyze(probe, webp) ==
  LET complexity == complexityOf(probe.edges, probe.totalPixels)
      imageType == Classify(probe.uniqueColors, complexity)
      hasTransparency == probe.transparentPixels > 0
  IN [complexity |-> toFixed2(complexity),
      uniqueColors |-> probe.uniqueColors,
      hasTransparency |-> hasTransparency,
      imageType |-> imageType,
      recommendedQuality |->
        calculateRecommendedQuality(complexity, imageType, hasTransparency),
      suggestedFormat |-> suggestFormat(imageType, hasTransparency, webp),
      compressibility |->
        calculateCompressibility(probe.uniqueColors, complexity),
      isLowDetail |-> complexity < 5 * CUnit,
      isHighDetail |-> complexity > 20 * CUnit]

Probe(totalPixels, edges, uniqueColors, transparentPixels) ==
  [totalPixels |-> totalPixels, edges |-> edges,
   uniqueColors |-> uniqueColors, transparentPixels |-> transparentPixels]

(***************************************************************************)
(* Inputs the model draws.                                                  *)
(***************************************************************************)
\* three presets of the constructor's table: thumbnail, small, large
Presets ==
  { [maxDimension |-> 150, targetSize |-> 8 * 1024],
    [maxDimension |-> 420, targetSize |-> 9 * 1024],
    [maxDimension |-> 864, targetSize |-> 24 * 1024] }

Targets == { p.targetSize : p \in Presets }

RECURSIVE SeqsUpTo(_, _)
SeqsUpTo(S, n) ==
  IF n = 0 THEN { <<>> }
  ELSE LET shorter == SeqsUpTo(S, n - 1)
       IN shorter \cup { Append(s, x) : s \in { t \in shorter : Len(t) = n - 1 }, x \in S }

PresetLists == SeqsUpTo(Presets, MaxPresets)

\* opts.quality: the five modes, and a string that is none of them
QualityModes == CompressionQuality \cup {"unknown"}

\* four probes of a 200 x 200 canvas, one for each value
\* calculateRecommendedQuality can return, where WebP is supported
Analyses ==
  { analyze(Probe(40000, 1200, 100, 0), TRUE),
    analyze(Probe(40000, 3200, 5000, 10), TRUE),
    analyze(Probe(40000, 6000, 5000, 0), TRUE),
    analyze(Probe(40000, 10000, 5000, 0), TRUE) }

NoAnalysis ==
  [complexity |-> 0, uniqueColors |-> 0, hasTransparency |-> FALSE,
   imageType |-> "none", recommendedQuality |-> 0]

\* compress(file): a readable image, an unreadable one, an empty Blob, a Blob
\* over maxFileSize, a value that is no Blob, and null
Files ==
  { [kind |-> "blob", size |-> 200 * 1024, decodable |-> TRUE],
    [kind |-> "blob", size |-> 200 * 1024, decodable |-> FALSE],
    [kind |-> "blob", size |-> 0, decodable |-> FALSE],
    [kind |-> "blob", size |-> maxFileSize + 1, decodable |-> TRUE],
    [kind |-> "nonblob", size |-> 0, decodable |-> FALSE],
    [kind |-> "null", size |-> 0, decodable |-> FALSE] }

NoFile == [kind |-> "none", size |-> 0, decodable |-> FALSE]
NoOpts == [quality |-> "none", presets |-> <<>>]

(***************************************************************************)
(* The encoder (canvas.toBlob behind ImageUtils.canvasToBlob): an external  *)
(* primitive.  A "stub" encoder is a deterministic curve                    *)
(*     size = floor + gain * quality * scale / 1000                         *)
(* which is strictly increasing in the quality when gain >= 1 (two          *)
(* qualities one search probes are more than 256 units apart and scale >=   *)
(* 32) and is a constant size floor when gain = 0.  An "any" encoder        *)
(* answers every call with any of a few sizes around the call's target.     *)
(* Every call of either may also yield no blob, and canvasToBlob then       *)
(* rejects.                                                                 *)
(***************************************************************************)
StubEncoders ==
  { [kind |-> "stub", floor |-> 0, gain |-> 1],
    [kind |-> "stub", floor |-> 0, gain |-> 4],
    [kind |-> "stub", floor |-> 10000, gain |-> 0],
    [kind |-> "stub", floor |-> 10000, gain |-> 1] }

AnyEncoder == [kind |-> "any", floor |-> 0, gain |-> 0]

AnySizes(targetSize) ==
  { targetSize \div 2, targetSize, (targetSize * Slack) \div 100,
    (targetSize * Slack) \div 100 + 1, 2 * targetSize }

toBlob(e, scale, quality, targetSize) ==
  IF e.kind = "stub"
  THEN { e.floor + (e.gain * quality * scale) \div 1000 }
  ELSE AnySizes(targetSize)

NoBlob == [size |-> -1, quality |-> -1, scale |-> -1, origin |-> "none"]

(***************************************************************************)
(* CompressionEngine.compress: the frame of one call.                       *)
(* calls, hiOk and floor0 are history: the encodes issued so far, the       *)
(* highest probed quality that met the tolerance, the initial minQuality.   *)
(***************************************************************************)
NoEng ==
  [minQuality |-> 0, maxQuality |-> 0, bestBlob |-> NoBlob, iterations |-> 0,
   mode |-> "none", targetSize |-> 0, scale |-> 0, caller |-> "none",
   calls |-> 0, hiOk |-> -1, floor0 |-> 0]

\* variant of InitialMinQuality: the floor of 0.02 is left out
InitialMinQualityUnfloored(baseQuality, adj) == Q(baseQuality - adj.range)

\* let minQuality = Math.max(0.02, baseQuality - qualityAdjustment.range)
InitialMinQuality(baseQuality, adj) ==
  Max(QualityFloor, Q(baseQuality - adj.range))

\* let maxQuality = Math.min(0.8, baseQuality + qualityAdjustment.boost)
InitialMaxQuality(baseQuality, adj) ==
  Min(QualityCeiling, Q(baseQuality + adj.boost))

EngineEnter(scale, targetSize, an, mode, caller) ==
  LET adj == getQualityAdjustment(mode)
      mn == InitialMinQuality(an.recommendedQuality, adj)
      mx == InitialMaxQuality(an.recommendedQuality, adj)
  IN [minQuality |-> mn, maxQuality |-> mx, bestBlob |-> NoBlob,
      iterations |-> 0, mode |-> mode, targetSize |-> targetSize,
      scale |-> scale, caller |-> caller, calls |-> 0, hiOk |-> -1,
      floor0 |-> mn]

LoopCond(e) ==
  /\ e.iterations < getQualityAdjustment(e.mode).iterations
  /\ e.maxQuality - e.minQuality > Epsilon

Midpoint(e) == (e.minQuality + e.maxQuality) \div 2

MeetsTolerance(size, targetSize, mode) ==
  size * 100 <= targetSize * getQualityAdjustment(mode).tolerance

\* variant of SearchStep: a probe that meets the tolerance lowers the
\* ceiling instead of raising the floor
SearchStepLowersCeiling(e, b) ==
  IF MeetsTolerance(b.size, e.targetSize, e.mode)
  THEN [e EXCEPT !.bestBlob = b, !.maxQuality = b.quality,
                 !.iterations = @ + 1, !.calls = @ + 1,
                 !.hiOk = Max(@, b.quality)]
  ELSE [e EXCEPT !.minQuality = b.quality,
                 !.iterations = @ + 1, !.calls = @ + 1]

\* one pass of the loop body, after the encode of `b` at the midpoint
SearchStep(e, b) ==
  IF MeetsTolerance(b.size, e.targetSize, e.mode)
  THEN [e EXCEPT !.bestBlob = b, !.minQuality = b.quality,
                 !.iterations = @ + 1, !.calls = @ + 1,
                 !.hiOk = Max(@, b.quality)]
  ELSE [e EXCEPT !.maxQuality = b.quality,
                 !.iterations = @ + 1, !.calls = @ + 1]

\* variant of FallbackQuality: the best-effort encode at maxQuality
FallbackQualityAtMax(e) == e.maxQuality

\* the quality of the encode after the loop, when bestBlob is still null
FallbackQuality(e) == e.minQuality

(***************************************************************************)
(* advancedOptimize: the frame of one call.  idx is the position in the     *)
(* ladder; log (history) holds one entry per finished ladder step: its      *)
(* scale, the profile it ran with and whether the result was <= target;     *)
(* calls (history) counts every encode of the call.                         *)
(***************************************************************************)
NoAO == [idx |-> 0, targetSize |-> 0, caller |-> "none", log |-> <<>>, calls |-> 0]

LadderMode == "extreme"

AOEnter(targetSize, caller) ==
  [idx |-> 1, targetSize |-> targetSize, caller |-> caller, log |-> <<>>, calls |-> 0]

\* variant of LadderHasMore: the last ratio of the ladder is skipped
LadderHasMoreOffByOne(idx) == idx < Len(scales) - 1

\* for (const scale of scales): another ratio follows the one at idx
LadderHasMore(idx) == idx < Len(scales)

\* variant of LadderAccepts: a ladder result within the slack is returned
LadderAcceptsWithinSlack(size, targetSize) == size * 100 <= targetSize * Slack

\* if (blob.size <= targetSize) return blob
LadderAccepts(size, targetSize) == size <= targetSize

\* variant of NeedsFallback: the slack factor is left out
NeedsFallbackOverTarget(size, targetSize) == size > targetSize

\* if (blob.size > preset.targetSize * 1.12)
NeedsFallback(size, targetSize) == size * 100 > targetSize * Slack

(***************************************************************************)
(* UltraCompressPro: helpers of the job.                                    *)
(***************************************************************************)
Event(type, versionIndex, totalVersions) ==
  [type |-> type, versionIndex |-> versionIndex, totalVersions |-> totalVersions]

\* validateFile: TRUE when it returns, FALSE when it throws
validateFile(f) ==
  /\ f.kind = "blob"
  /\ f.size # 0
  /\ ~ (f.size > maxFileSize)

\* variant of JobCatch: the catch block emits nothing
JobCatchSilent(f, evs) == evs

\* the catch block of compress: it reads file.name before it emits ERROR,
\* which throws a TypeError, and emits nothing, when file is null
JobCatch(f, evs) ==
  IF f.kind = "null" THEN evs ELSE Append(evs, Event("error", -1, -1))

RECURSIVE SumSizes(_)
SumSizes(vs) ==
  IF vs = <<>> THEN 0 ELSE Head(vs).blob.size + SumSizes(Tail(vs))

_updateStats(st, f, vs) ==
  [totalProcessed |-> st.totalProcessed + 1,
   totalOriginalSize |-> st.totalOriginalSize + f.size,
   totalCompressedSize |-> st.totalCompressedSize + SumSizes(vs)]

\* variant of SummaryThrows: the summary also needs a second version
SummaryThrowsBelowTwo(vs) == Len(vs) < 2

\* _generateSummary reads versions[0].blob: it throws on an empty list
SummaryThrows(vs) == Len(vs) = 0

\* variant of CatchVersionError: the catch throws the error again
CatchVersionErrorRethrows(idx) == [pc |-> "job_catch", i |-> idx]

\* the catch of _processVersions: log, and go on with the next preset
CatchVersionError(idx) == [pc |-> "pv_loop", i |-> idx + 1]

(***************************************************************************)
(* A rejected promise inside the engine travels to the nearest catch: the   *)
(* one of _processVersions when the job runs the engine, the caller of the  *)
(* engine otherwise.                                                        *)
(***************************************************************************)
Raise(root) ==
  /\ eng' = NoEng
  /\ ao' = NoAO
  /\ ret' = NoBlob
  /\ blob' = NoBlob
  /\ ctrl' = NoBlob
  /\ IF root = "pv"
     THEN /\ pc' = CatchVersionError(i).pc
          /\ i' = CatchVersionError(i).i
          /\ failed' = failed \cup {i}
          /\ outcome' = outcome
     ELSE /\ pc' = "idle"
          /\ outcome' = "rejected"
          /\ UNCHANGED <<i, failed>>
  /\ UNCHANGED <<batch, emitter, util, enc, file, opts, analysis, versions, events, stats>>

(***************************************************************************)
(* CompressionEngine.compress                                               *)
(***************************************************************************)
\* one pass of the while loop: encode at the midpoint, move one bound
Engine_Probe ==
  /\ pc = "engine"
  /\ LoopCond(eng)
  /\ \E size \in toBlob(enc, eng.scale, Midpoint(eng), eng.targetSize) :
       eng' = SearchStep(eng, [size |-> size, quality |-> Midpoint(eng),
                               scale |-> eng.scale, origin |-> "probe"])
  /\ UNCHANGED <<batch, emitter, util, pc, enc, file, opts, analysis, i, versions, blob, ao, ret,
                 events, stats, outcome, failed, ctrl>>

\* the loop is over and bestBlob is null: one encode at minQuality
Engine_Fallback ==
  /\ pc = "engine"
  /\ ~ LoopCond(eng)
  /\ eng.bestBlob = NoBlob
  /\ \E size \in toBlob(enc, eng.scale, FallbackQuality(eng), eng.targetSize) :
       LET b == [size |-> size, quality |-> FallbackQuality(eng),
                 scale |-> eng.scale, origin |-> "fallback"]
       IN /\ eng' = [eng EXCEPT !.bestBlob = b, !.calls = @ + 1]
          /\ ret' = b
  /\ pc' = "engine_ret"
  /\ UNCHANGED <<batch, emitter, util, enc, file, opts, analysis, i, versions, blob, ao,
                 events, stats, outcome, failed, ctrl>>

\* the loop is over and bestBlob is set: return it
Engine_Return ==
  /\ pc = "engine"
  /\ ~ LoopCond(eng)
  /\ eng.bestBlob # NoBlob
  /\ ret' = eng.bestBlob
  /\ pc' = "engine_ret"
  /\ UNCHANGED <<batch, emitter, util, enc, file, opts, analysis, i, versions, blob, eng, ao,
                 events, stats, outcome, failed, ctrl>>

\* canvas.toBlob yields no blob: canvasToBlob rejects inside compress
Engine_EncodeFails ==
  /\ pc = "engine"
  /\ LoopCond(eng) \/ eng.bestBlob = NoBlob
  /\ Raise(IF eng.caller = "ao" THEN ao.caller ELSE eng.caller)

(***************************************************************************)
(* CompressionEngine.advancedOptimize                                       *)
(***************************************************************************)
\* compress returned for the ladder step idx: return it, or go on
AO_AfterCompress ==
  /\ pc = "engine_ret"
  /\ eng.caller = "ao"
  /\ LET accepted == LadderAccepts(ret.size, ao.targetSize)
         frame == [ao EXCEPT !.log = Append(@, [scale |-> eng.scale,
                                                mode |-> eng.mode,
                                                ok |-> accepted]),
                             !.calls = @ + eng.calls]
     IN IF accepted
        THEN /\ ao' = frame
             /\ pc' = "ao_ret"
             /\ eng' = NoEng
             /\ ret' = ret
        ELSE IF LadderHasMore(ao.idx)
        THEN /\ ao' = [frame EXCEPT !.idx = @ + 1]
             /\ eng' = EngineEnter(scales[ao.idx + 1], ao.targetSize, analysis,
                                   LadderMode, "ao")
             /\ pc' = "engine"
             /\ ret' = NoBlob
        ELSE /\ ao' = [frame EXCEPT !.idx = @ + 1]
             /\ eng' = NoEng
             /\ pc' = "ao_last"
             /\ ret' = NoBlob
  /\ UNCHANGED <<batch, emitter, util, enc, file, opts, analysis, i, versions, blob,
                 events, stats, outcome, failed, ctrl>>

\* every ratio failed: one encode at scale 0.32 and quality 0.02
AO_LastResort ==
  /\ pc = "ao_last"
  /\ \E size \in toBlob(enc, LastResortScale, LastResortQuality, ao.targetSize) :
       ret' = [size |-> size, quality |-> LastResortQuality,
               scale |-> LastResortScale, origin |-> "lastresort"]
  /\ ao' = [ao EXCEPT !.calls = @ + 1]
  /\ pc' = "ao_ret"
  /\ UNCHANGED <<batch, emitter, util, enc, file, opts, analysis, i, versions, blob, eng,
                 events, stats, outcome, failed, ctrl>>

AO_LastResortFails ==
  /\ pc = "ao_last"
  /\ Raise(ao.caller)

(***************************************************************************)
(* UltraCompressPro.compress and _processVersions                           *)
(***************************************************************************)
\* compress(file, options) up to its first await
Compress ==
  /\ pc = "idle"
  /\ \E f \in Files, q \in QualityModes, ps \in PresetLists :
       /\ file' = f
       /\ opts' = [quality |-> q, presets |-> ps]
       /\ IF validateFile(f)
          THEN /\ events' = Append(events, Event("start", -1, -1))
               /\ pc' = "decode"
               /\ outcome' = outcome
          ELSE /\ events' = JobCatch(f, events)
               /\ pc' = "done"
               /\ outcome' = "rejected"
  /\ UNCHANGED <<batch, emitter, util, enc, analysis, i, versions, blob, eng, ao, ret, stats,
                 failed, ctrl>>

\* arrayBuffer, loadImage and analyze; then _processVersions is entered
Decode ==
  /\ pc = "decode"
  /\ IF file.decodable
     THEN /\ \E an \in Analyses : analysis' = an
          /\ i' = 0
          /\ versions' = <<>>
          /\ pc' = "pv_loop"
          /\ UNCHANGED <<events, outcome>>
     ELSE /\ events' = JobCatch(file, events)
          /\ outcome' = "rejected"
          /\ pc' = "done"
          /\ UNCHANGED <<analysis, i, versions>>
  /\ UNCHANGED <<batch, emitter, util, enc, file, opts, blob, eng, ao, ret, stats, failed, ctrl>>

\* one iteration begins: dimensions and canvas are made, compress is called
PV_Canvas ==
  /\ pc = "pv_loop"
  /\ i < Len(opts.presets)
  /\ eng' = EngineEnter(100, opts.presets[i + 1].targetSize, analysis,
                        opts.quality, "pv")
  /\ pc' = "engine"
  /\ UNCHANGED <<batch, emitter, util, enc, file, opts, analysis, i, versions, blob, ao, ret,
                 events, stats, outcome, failed, ctrl>>

\* calculateDimensions or createOptimizedCanvas throws
PV_CanvasThrows ==
  /\ pc = "pv_loop"
  /\ i < Len(opts.presets)
  /\ Raise("pv")

\* compress returned to _processVersions: keep the blob, or fall back
PV_AfterCompress ==
  /\ pc = "engine_ret"
  /\ eng.caller = "pv"
  /\ blob' = ret
  /\ ctrl' = ret
  /\ ret' = NoBlob
  /\ IF NeedsFallback(ret.size, eng.targetSize)
     THEN /\ ao' = AOEnter(eng.targetSize, "pv")
          /\ eng' = EngineEnter(scales[1], eng.targetSize, analysis,
                                LadderMode, "ao")
          /\ pc' = "engine"
     ELSE /\ eng' = NoEng
          /\ ao' = ao
          /\ pc' = "pv_push"
  /\ UNCHANGED <<batch, emitter, util, enc, file, opts, analysis, i, versions,
                 events, stats, outcome, failed>>

\* advancedOptimize returned to _processVersions
PV_AfterAO ==
  /\ pc = "ao_ret"
  /\ ao.caller = "pv"
  /\ blob' = ret
  /\ ret' = NoBlob
  /\ ao' = NoAO
  /\ pc' = "pv_push"
  /\ UNCHANGED <<batch, emitter, util, enc, file, opts, analysis, i, versions, eng,
                 events, stats, outcome, failed, ctrl>>

\* variant of VersionComplete: versionIndex is the position in versions
VersionCompleteListIndex ==
  Event("version_complete", Len(versions) - 1, Len(opts.presets))

\* the payload of the VERSION_COMPLETE event of iteration i
VersionComplete == Event("version_complete", i, Len(opts.presets))

\* metadata, versions.push(version)
PV_Push ==
  /\ pc = "pv_push"
  /\ versions' = Append(versions, [versionIndex |-> i, blob |-> blob])
  /\ pc' = "pv_emit"
  /\ UNCHANGED <<batch, emitter, util, enc, file, opts, analysis, i, blob, eng, ao, ret, events,
                 stats, outcome, failed, ctrl>>

\* this.emit(VERSION_COMPLETE, ..), and the iteration ends
PV_Emit ==
  /\ pc = "pv_emit"
  /\ events' = Append(events, VersionComplete)
  /\ i' = i + 1
  /\ blob' = NoBlob
  /\ ctrl' = NoBlob
  /\ pc' = "pv_loop"
  /\ UNCHANGED <<batch, emitter, util, enc, file, opts, analysis, versions, eng, ao, ret,
                 stats, outcome, failed>>

\* _processVersions returned: stats, summary, COMPLETE; or the catch
Finish ==
  /\ pc = "pv_loop"
  /\ ~ (i < Len(opts.presets))
  /\ stats' = _updateStats(stats, file, versions)
  /\ IF SummaryThrows(versions)
     THEN /\ events' = JobCatch(file, events)
          /\ outcome' = "rejected"
     ELSE /\ events' = Append(events, Event("complete", -1, -1))
          /\ outcome' = "resolved"
  /\ pc' = "done"
  /\ UNCHANGED <<batch, emitter, util, enc, file, opts, analysis, i, versions, blob, eng, ao, ret,
                 failed, ctrl>>

(***************************************************************************)
(* The engine called on its own (UltraCompressPro.Engine is exported).      *)
(***************************************************************************)
DirectCompress ==
  /\ pc = "idle"
  /\ \E t \in Targets, an \in Analyses, q \in QualityModes :
       /\ analysis' = an
       /\ eng' = EngineEnter(100, t, an, q, "direct")
  /\ outcome' = "pending"
  /\ pc' = "engine"
  /\ UNCHANGED <<batch, emitter, util, enc, file, opts, i, versions, blob, ao, ret, events, stats,
                 failed, ctrl>>

DirectAdvancedOptimize ==
  /\ pc = "idle"
  /\ \E t \in Targets, an \in Analyses :
       /\ analysis' = an
       /\ ao' = AOEnter(t, "direct")
       /\ eng' = EngineEnter(scales[1], t, an, LadderMode, "ao")
  /\ outcome' = "pending"
  /\ pc' = "engine"
  /\ UNCHANGED <<batch, emitter, util, enc, file, opts, i, versions, blob, ret, events, stats,
                 failed, ctrl>>

\* the caller receives the blob
DirectSettle ==
  /\ \/ pc = "engine_ret" /\ eng.caller = "direct"
     \/ pc = "ao_ret" /\ ao.caller = "direct"
  /\ outcome' = "resolved"
  /\ pc' = "idle"
  /\ eng' = NoEng
  /\ ao' = NoAO
  /\ ret' = NoBlob
  /\ UNCHANGED <<batch, emitter, util, enc, file, opts, analysis, i, versions, blob, events, stats,
                 failed, ctrl>>

(***************************************************************************)
(* Direct calls of the image helpers.  util is the frame of the call.       *)
(***************************************************************************)
NoCall == [op |-> "none"]

\* analyze(img): sampleSize = min(img.width, img.height, 200)
ProbeSides == {1, 10, 200}

\* edge counts next to the thresholds 5, 10 and 20 of the complexity
EdgeCounts(totalPixels) ==
  {0} \cup { (k * totalPixels) \div 100 + d : k \in {5, 10, 20}, d \in {-1, 0, 1} }

ColorCounts == {1, 2, 255, 256, 999, 1000, 4999, 5000}

\* what the pixel loop can count: the first pixel is no edge, an edge takes
\* two colours, and no count exceeds the number of pixels
Probes ==
  UNION { { Probe(n * n, e, u, t) :
              e \in { c \in EdgeCounts(n * n) : c >= 0 /\ c < n * n },
              u \in { c \in ColorCounts : c <= n * n },
              t \in {0, 1} } : n \in ProbeSides }

RealProbes == { p \in Probes : p.edges > 0 => p.uniqueColors >= 2 }

\* ImageAnalyzer.analyze(img) on a device that does or does not encode WebP
Analyze ==
  /\ util = NoCall
  /\ \E p \in RealProbes, webp \in BOOLEAN :
       util' = [op |-> "analyze", webp |-> webp, probe |-> p,
                report |-> analyze(p, webp),
                probe2 |-> p, report2 |-> NoAnalysis]
  /\ UNCHANGED <<batch, emitter, pc, enc, file, opts, analysis, i, versions, blob, eng, ao,
                 ret, events, stats, outcome, failed, ctrl>>

\* a second image analysed on the same device
AnalyzeOther ==
  /\ util.op = "analyze"
  /\ util.report2 = NoAnalysis
  /\ \E p \in RealProbes :
       util' = [util EXCEPT !.probe2 = p, !.report2 = analyze(p, util.webp)]
  /\ UNCHANGED <<batch, emitter, pc, enc, file, opts, analysis, i, versions, blob, eng, ao,
                 ret, events, stats, outcome, failed, ctrl>>

(***************************************************************************)
(* AdvancedProcessor.detectEdges.  A bitmap is width, height and data, the  *)
(* grey value of each pixel (r = g = b, so (r + g + b) / 3 is that value),  *)
(* indexed y * width + x from 0.  An edge value v is held as its square in  *)
(* units of 1/255^2, which is exact: v = 1 is EdgeOne, and Math.min(1, v)   *)
(* is the minimum with EdgeOne.  The Float32Array starts as zeros and       *)
(* storing into it keeps 0, 1 and the order of values.                      *)
(***************************************************************************)
\* the bitmaps drawn have at most this many pixels
MaxPixels == 12

EdgeOne == 255 * 255

sobelX == <<<<-1, 0, 1>>, <<-2, 0, 2>>, <<-1, 0, 1>>>>
sobelY == <<<<-1, -2, -1>>, <<0, 0, 0>>, <<1, 2, 1>>>>

\* gx * gx + gy * gy at the pixel (x, y)
Gradient2(data, width, x, y) ==
  LET gray(kx, ky) == data[(y + ky) * width + (x + kx)]
      Sum(w) == LET RECURSIVE Acc(_)
                    Acc(n) == IF n = 9 THEN 0
                              ELSE LET kx == (n % 3) - 1
                                       ky == (n \div 3) - 1
                                   IN gray(kx, ky) * w[ky + 2][kx + 2]
                                      + Acc(n + 1)
                IN Acc(0)
      gx == Sum(sobelX)
      gy == Sum(sobelY)
  IN gx * gx + gy * gy

Interior(width, height, x, y) ==
  x >= 1 /\ x < width - 1 /\ y >= 1 /\ y < height - 1

detectEdgesUnclamped(data, width, height) ==
  [k \in 0..(width * height - 1) |->
     IF Interior(width, height, k % width, k \div width)
     THEN Gradient2(data, width, k % width, k \div width)
     ELSE 0]

detectEdges(data, width, height) ==
  [k \in 0..(width * height - 1) |->
     IF Interior(width, height, k % width, k \div width)
     THEN Min(EdgeOne, Gradient2(data, width, k % width, k \div width))
     ELSE 0]

GreyLevels == {0, 85}

BitmapSizes ==
  { wh \in (1..MaxPixels) \X (1..MaxPixels) : wh[1] * wh[2] <= MaxPixels }

\* AdvancedProcessor.detectEdges(ctx, width, height) on a canvas of its own
DetectEdges ==
  /\ util = NoCall
  /\ \E wh \in BitmapSizes :
     \E data \in [0..(wh[1] * wh[2] - 1) -> GreyLevels] :
       util' = [op |-> "detectEdges", width |-> wh[1], height |-> wh[2],
                data |-> data,
                edgeMap |-> detectEdges(data, wh[1], wh[2])]
  /\ UNCHANGED <<batch, emitter, pc, enc, file, opts, analysis, i, versions, blob, eng, ao,
                 ret, events, stats, outcome, failed, ctrl>>

(***************************************************************************)
(* AdvancedProcessor.applyColorQuantization.  step = 256 / levels, so a     *)
(* quotient v / step is the fraction v * levels / 256 and a product         *)
(* n * step is n * 256 / levels; both are computed here on the fractions.   *)
(* The doubles of the source give the same bytes for every channel value    *)
(* under each of the Levels drawn.                                          *)
(***************************************************************************)
\* Math.floor of num / den, for num >= 0 and den > 0
MathFloor(num, den) == num \div den

\* Math.round of num / den: the nearest integer, halves upwards
MathRound(num, den) == (2 * num + den) \div (2 * den)

\* a store of num / den into a Uint8ClampedArray: clamped to 0..255 and
\* rounded to the nearest integer, halves to the even one
ToUint8Clamp(num, den) ==
  IF num <= 0 THEN 0
  ELSE IF num >= 255 * den THEN 255
  ELSE LET f == num \div den
           r == num - f * den
       IN IF 2 * r > den THEN f + 1
          ELSE IF 2 * r < den THEN f
          ELSE IF f % 2 = 0 THEN f ELSE f + 1

\* data[i] = Math.round(data[i] / step) * step
quantizeChannel(v, levels) ==
  ToUint8Clamp(MathRound(v * levels, 256) * 256, levels)

\* a buffer is one pixel <<r, g, b, a>>; the alpha byte is not written
applyColorQuantization(data, levels) ==
  <<quantizeChannel(data[1], levels), quantizeChannel(data[2], levels),
    quantizeChannel(data[3], levels), data[4]>>

\* 218 is what createOptimizedCanvas passes, 220 the default
Levels == {2, 64, 218, 220}

Pixels == (0..255) \X {0, 64, 255} \X {192} \X {0, 255}

\* applyColorQuantization(ctx, 1, 1, levels) on a canvas of one pixel
Quantize ==
  /\ util = NoCall
  /\ \E px \in Pixels, levels \in Levels :
       util' = [op |-> "applyColorQuantization", levels |-> levels,
                input |-> px, passes |-> 1, prev |-> px,
                data |-> applyColorQuantization(px, levels)]
  /\ UNCHANGED <<batch, emitter, pc, enc, file, opts, analysis, i, versions, blob, eng, ao,
                 ret, events, stats, outcome, failed, ctrl>>

\* the same call once more, on the canvas the first call left
QuantizeAgain ==
  /\ util.op = "applyColorQuantization"
  /\ util.passes = 1
  /\ util' = [util EXCEPT !.passes = 2, !.prev = util.data,
                !.data = applyColorQuantization(util.data, util.levels)]
  /\ UNCHANGED <<batch, emitter, pc, enc, file, opts, analysis, i, versions, blob, eng, ao,
                 ret, events, stats, outcome, failed, ctrl>>

(***************************************************************************)
(* CompressionEngine.drawWithSmartCrop.  The source rectangle is made of    *)
(* quotients of pixel counts; each is held as a fraction [num, den] with    *)
(* den > 0, the value the double of the source rounds.  For sides below     *)
(* 2^26 the doubles sourceAspect and targetAspect compare as the fractions. *)
(***************************************************************************)
MaxSide == 6

Frac(num, den) == [num |-> num, den |-> den]
FracLe(a, b) == a.num * b.den <= b.num * a.den
FracEq(a, b) == a.num * b.den = b.num * a.den
FracAdd(a, b) == Frac(a.num * b.den + b.num * a.den, a.den * b.den)
FracTimes(a, n) == Frac(a.num * n, a.den)

drawWithSmartCropFromOrigin(dims) ==
  IF dims.sourceWidth * dims.height > dims.width * dims.sourceHeight
  THEN [sx |-> Frac(0, 1), sy |-> Frac(0, 1),
        sw |-> Frac(dims.sourceHeight * dims.width, dims.height),
        sh |-> Frac(dims.sourceHeight, 1)]
  ELSE IF dims.sourceWidth * dims.height < dims.width * dims.sourceHeight
  THEN [sx |-> Frac(0, 1), sy |-> Frac(0, 1),
        sw |-> Frac(dims.sourceWidth, 1),
        sh |-> Frac(dims.sourceWidth * dims.height, dims.width)]
  ELSE [sx |-> Frac(0, 1), sy |-> Frac(0, 1),
        sw |-> Frac(dims.sourceWidth, 1), sh |-> Frac(dims.sourceHeight, 1)]

\* the rectangle (sx, sy, sw, sh) handed to ctx.drawImage
drawWithSmartCrop(dims) ==
  IF dims.sourceWidth * dims.height > dims.width * dims.sourceHeight
  THEN \* sw = sourceHeight * targetAspect; sx = (sourceWidth - sw) / 2
       [sx |-> Frac(dims.sourceWidth * dims.height
                      - dims.sourceHeight * dims.width, 2 * dims.height),
        sy |-> Frac(0, 1),
        sw |-> Frac(dims.sourceHeight * dims.width, dims.height),
        sh |-> Frac(dims.sourceHeight, 1)]
  ELSE IF dims.sourceWidth * dims.height < dims.width * dims.sourceHeight
  THEN \* sh = sourceWidth / targetAspect; sy = (sourceHeight - sh) / 2
       [sx |-> Frac(0, 1),
        sy |-> Frac(dims.sourceHeight * dims.width
                      - dims.sourceWidth * dims.height, 2 * dims.width),
        sw |-> Frac(dims.sourceWidth, 1),
        sh |-> Frac(dims.sourceWidth * dims.height, dims.width)]
  ELSE [sx |-> Frac(0, 1), sy |-> Frac(0, 1),
        sw |-> Frac(dims.sourceWidth, 1), sh |-> Frac(dims.sourceHeight, 1)]

\* drawWithSmartCrop(ctx, img, dims) for any source and target of 1 x 1 up
DrawWithSmartCrop ==
  /\ util = NoCall
  /\ \E sourceWidth \in 1..MaxSide, sourceHeight \in 1..MaxSide,
        width \in 1..MaxSide, height \in 1..MaxSide :
       LET dims == [width |-> width, height |-> height,
                    sourceWidth |-> sourceWidth,
                    sourceHeight |-> sourceHeight]
       IN util' = [op |-> "drawWithSmartCrop", dims |-> dims,
                   rect |-> drawWithSmartCrop(dims)]
  /\ UNCHANGED <<batch, emitter, pc, enc, file, opts, analysis, i, versions, blob, eng, ao,
                 ret, events, stats, outcome, failed, ctrl>>

(***************************************************************************)
(* ImageUtils.calculateDimensions and CompressionEngine.scaleCanvas.        *)
(* Quotients are computed on fractions.  A division by a height of 0 gives  *)
(* Infinity (width > 0) or NaN (width = 0) in the source: Infinity differs  *)
(* from any ratio by more than 0.01 and is the larger, NaN compares false.  *)
(***************************************************************************)
\* targetAspectRatio = null, or a preset that has no aspectRatio
NoAspect == Frac(0, 1)

FitSideEnlarges(side, maxDimension) == Max(side, maxDimension)

\* Math.min(width, maxDimension), Math.min(height, maxDimension)
FitSide(side, maxDimension) == Min(side, maxDimension)

Abs(n) == IF n < 0 THEN -n ELSE n

\* the first step: the longer side fitted, the other by the source aspect
naturalDimensions(width, height, maxDimension) ==
  IF width > height
  THEN LET targetWidth == FitSide(width, maxDimension)
       IN [width |-> targetWidth,
           height |-> MathRound(targetWidth * height, width)]
  ELSE LET targetHeight == FitSide(height, maxDimension)
       IN [width |-> MathRound(targetHeight * width, height),
           height |-> targetHeight]

\* Math.abs(newAspect - targetAspectRatio) > 0.01
AspectDeviates(n, ratio) ==
  IF n.height = 0 THEN n.width > 0
  ELSE Abs(n.width * ratio.den - ratio.num * n.height) * 100
         > n.height * ratio.den

\* variant of AspectAbove: the comparison is turned around
AspectBelow(n, ratio) ==
  IF n.height = 0 THEN FALSE
  ELSE n.width * ratio.den < ratio.num * n.height

\* newAspect > targetAspectRatio
AspectAbove(n, ratio) ==
  IF n.height = 0 THEN n.width > 0
  ELSE n.width * ratio.den > ratio.num * n.height

calculateDimensions(width, height, maxDimension, targetAspectRatio) ==
  LET n == naturalDimensions(width, height, maxDimension)
      t == IF targetAspectRatio = NoAspect
              \/ ~AspectDeviates(n, targetAspectRatio) THEN n
           ELSE IF AspectAbove(n, targetAspectRatio)
           THEN [n EXCEPT !.width = MathRound(n.height * targetAspectRatio.num,
                                              targetAspectRatio.den)]
           ELSE [n EXCEPT !.height = MathRound(n.width * targetAspectRatio.den,
                                               targetAspectRatio.num)]
  IN [width |-> t.width, height |-> t.height,
      sourceWidth |-> width, sourceHeight |-> height,
      scale |-> Frac(t.width, width)]

\* Math.round(side * scale), scale in hundredths.  Where side * scale is
\* exactly a half and the double of scale is not exact (any but 0.5), the
\* double product lies on either side of the half.
scaledSide(side, scale) ==
  IF (2 * side * scale) % 200 = 100 /\ scale # 50
  THEN {(side * scale) \div 100, (side * scale) \div 100 + 1}
  ELSE {MathRound(side * scale, 100)}

\* the sizes of the decoded images drawn, and what a preset gives to
\* calculateDimensions: thumbnail, small, large and hd of the constructor's
\* table, and custom presets that name no aspectRatio
SourceSides == {1, 2, 3, 80, 100, 150, 301, 1000, 1500, 2000}

PresetDimensions ==
  LET table == { [maxDimension |-> 150, aspectRatio |-> Frac(1, 1)],
                 [maxDimension |-> 420, aspectRatio |-> Frac(4, 3)],
                 [maxDimension |-> 864, aspectRatio |-> Frac(4, 3)],
                 [maxDimension |-> 1280, aspectRatio |-> Frac(16, 9)] }
  IN table \cup { [p EXCEPT !.aspectRatio = NoAspect] : p \in table }

\* every scale advancedOptimize hands to scaleCanvas
LadderScales == { scales[k] : k \in DOMAIN scales } \cup {LastResortScale}

\* ImageUtils.calculateDimensions(img.width, img.height, preset.maxDimension,
\* preset.aspectRatio)
CalculateDimensions ==
  /\ util = NoCall
  /\ \E width \in SourceSides, height \in SourceSides,
        p \in PresetDimensions :
       util' = [op |-> "calculateDimensions", preset |-> p,
                dimensions |-> calculateDimensions(width, height,
                                                   p.maxDimension,
                                                   p.aspectRatio)]
  /\ UNCHANGED <<batch, emitter, pc, enc, file, opts, analysis, i, versions, blob, eng, ao,
                 ret, events, stats, outcome, failed, ctrl>>

\* CompressionEngine.scaleCanvas(canvas, scale), canvas being the canvas
\* createOptimizedCanvas made with these dimensions
ScaleCanvas ==
  /\ util.op = "calculateDimensions"
  /\ util.dimensions.width >= 1
  /\ util.dimensions.height >= 1
  /\ \E scale \in LadderScales :
     \E w \in scaledSide(util.dimensions.width, scale),
        h \in scaledSide(util.dimensions.height, scale) :
       util' = [op |-> "scaleCanvas", source |-> util.dimensions,
                scale |-> scale, width |-> w, height |-> h]
  /\ UNCHANGED <<batch, emitter, pc, enc, file, opts, analysis, i, versions, blob, eng, ao,
                 ret, events, stats, outcome, failed, ctrl>>

(***************************************************************************)
(* AdvancedProcessor.applySelectiveBlur.  A buffer holds one byte per       *)
(* pixel, which stands for each of R, G and B: the three are computed by    *)
(* the same sums.  The kernel of createGaussianKernel(1.4), the radius      *)
(* createOptimizedCanvas passes, has 11 x 11 weights                        *)
(* exp(-(dx * dx + dy * dy) / 3.92); a weight is held as the product of the *)
(* two one-dimensional factors exp(-d * d / 3.92) in units of 1/500.  The   *)
(* division by the sum of the kernel cancels in r / totalWeight.            *)
(* An edge value is held as its square in units of 1 / EdgeOne, so          *)
(* value > 0.22 is square * 10000 > 484 * EdgeOne.  No value of the map is  *)
(* 0.22 itself: the map is a Float32Array and the double 0.22 is not a      *)
(* float; the squares 9 * (gx * gx + gy * gy) are whole numbers and the     *)
(* threshold lies at 28324.89, so rounding does not move a value across.    *)
(***************************************************************************)
GaussianTaps == <<500, 387, 180, 50, 8, 1>>

\* Math.floor(kernelSize / 2) and kernel.length
halfKernel == Len(GaussianTaps) - 1
kernelSize == 2 * halfKernel + 1

\* kernel[ky][kx]
kernelWeight(kx, ky) ==
  GaussianTaps[Abs(kx - halfKernel) + 1] * GaussianTaps[Abs(ky - halfKernel) + 1]

\* if (edgeMap[y * width + x] > 0.22) continue
EdgeSkipped(edge) == edge * 10000 > 484 * EdgeOne

\* the loop over kx for the kernel row ky at the pixel (x, y): what it
\* adds to r
RECURSIVE BlurRow(_, _, _, _, _, _, _)
BlurRow(data, width, height, x, y, ky, kx) ==
  IF kx = kernelSize THEN 0
  ELSE data[Min(height - 1, Max(0, y + ky - halfKernel)) * width
            + Min(width - 1, Max(0, x + kx - halfKernel))]
         * kernelWeight(kx, ky)
       + BlurRow(data, width, height, x, y, ky, kx + 1)

\* the two inner loops for the pixel (x, y): r
RECURSIVE BlurSum(_, _, _, _, _, _)
BlurSum(data, width, height, x, y, ky) ==
  IF ky = kernelSize THEN 0
  ELSE BlurRow(data, width, height, x, y, ky, 0)
       + BlurSum(data, width, height, x, y, ky + 1)

\* totalWeight += weight, over the whole kernel
RECURSIVE WeightRow(_, _)
WeightRow(ky, kx) ==
  IF kx = kernelSize THEN 0
  ELSE kernelWeight(kx, ky) + WeightRow(ky, kx + 1)

RECURSIVE WeightSum(_)
WeightSum(ky) ==
  IF ky = kernelSize THEN 0 ELSE WeightRow(ky, 0) + WeightSum(ky + 1)

\* output[i] = r / totalWeight, stored into the Uint8ClampedArray
BlurredByte(data, width, height, k) ==
  ToUint8Clamp(BlurSum(data, width, height, k % width, k \div width, 0),
               WeightSum(0))

\* variant of applySelectiveBlur: the sums read the buffer that is being
\* written, so a pixel sees the blurred values of the pixels before it
RECURSIVE BlurInPlaceFrom(_, _, _, _, _)
BlurInPlaceFrom(buffer, width, height, edgeMap, k) ==
  IF k = width * height THEN buffer
  ELSE BlurInPlaceFrom(
         IF EdgeSkipped(edgeMap[k]) THEN buffer
         ELSE [buffer EXCEPT ![k] = BlurredByte(buffer, width, height, k)],
         width, height, edgeMap, k + 1)

applySelectiveBlurInPlace(data, width, height, edgeMap) ==
  BlurInPlaceFrom(data, width, height, edgeMap, 0)

\* output = new Uint8ClampedArray(data); the sums read data, the stores
\* go to output; imageData.data.set(output) at the end
applySelectiveBlur(data, width, height, edgeMap) ==
  [k \in 0..(width * height - 1) |->
     IF EdgeSkipped(edgeMap[k]) THEN data[k]
     ELSE BlurredByte(data, width, height, k)]

\* a bitmap of two greys, 0 and g: with g = 14 the edge values lie on both
\* sides of 0.22 (56 / 255 below it, sqrt(3332) / 255 above), with g = 85
\* every edge is far above it
BlurGreySteps == {14, 85}

BlurSizes == { wh \in BitmapSizes : wh[1] = wh[2] /\ wh[1] * wh[2] > 4 }

\* AdvancedProcessor.applySelectiveBlur(ctx, width, height, edgeMap, 1.4)
\* with the edge map detectEdges gave for the canvas
ApplySelectiveBlur ==
  /\ util = NoCall
  /\ \E wh \in BlurSizes :
     \E g \in BlurGreySteps :
     \E data \in [0..(wh[1] * wh[2] - 1) -> {0, g}] :
       LET edgeMap == detectEdges(data, wh[1], wh[2])
       IN util' = [op |-> "applySelectiveBlur", width |-> wh[1],
                   height |-> wh[2], input |-> data, edgeMap |-> edgeMap,
                   data |-> applySelectiveBlur(data, wh[1], wh[2], edgeMap)]
  /\ UNCHANGED <<batch, emitter, pc, enc, file, opts, analysis, i, versions, blob, eng, ao,
                 ret, events, stats, outcome, failed, ctrl>>

(***************************************************************************)
(* The preprocessing stages of AdvancedProcessor on the bytes of an         *)
(* ImageData: data holds width * height pixels of four bytes, r, g, b, a,   *)
(* counted from 0; the pixel (x, y) starts at i = (y * width + x) * 4.      *)
(* The doubles of the source are held in millionths and a product is cut    *)
(* to the millionth; a store into the Uint8ClampedArray rounds to the       *)
(* nearest byte.  For every bitmap drawn below the bytes stored are those   *)
(* the doubles of the source give.                                          *)
(***************************************************************************)
FixOne == 1000 * 1000

\* a * c for two numbers in millionths, c at most 2, cut to the millionth
FixMul(a, c) ==
  LET a1 == Abs(a) \div 1000
      a0 == Abs(a) % 1000
      c1 == Abs(c) \div 1000
      c0 == Abs(c) % 1000
      product == a1 * c1 + (a1 * c0 + a0 * c1 + (a0 * c0) \div 1000) \div 1000
  IN IF (a < 0) = (c < 0) THEN product ELSE -product

\* a / n for a number in millionths and a count n, cut towards zero
FixDiv(a, n) == IF a < 0 THEN -((-a) \div n) ELSE a \div n

\* the bytes r, g, b of the pixel k
RGB(data, k) == <<data[4 * k], data[4 * k + 1], data[4 * k + 2]>>

\* stores to all four bytes of the pixel at the index at
WriteRGBA(buffer, at, rgb) ==
  [buffer EXCEPT ![at] = rgb[1], ![at + 1] = rgb[2], ![at + 2] = rgb[3],
                 ![at + 3] = rgb[1]]

\* data[i] = rgb[1]; data[i + 1] = rgb[2]; data[i + 2] = rgb[3], at the
\* index at of the pixel
WriteRGB(buffer, at, rgb) ==
  [buffer EXCEPT ![at] = rgb[1], ![at + 1] = rgb[2], ![at + 2] = rgb[3]]

\* cb and cr of a pixel
Cb(rgb) == 128 * FixOne - 168736 * rgb[1] - 331264 * rgb[2] + 500000 * rgb[3]
Cr(rgb) == 128 * FixOne + 500000 * rgb[1] - 418688 * rgb[2] - 81312 * rgb[3]

\* the pixels of the 2 x 2 block of the pixel k that lie in the bitmap
BlockOf(width, height, k) ==
  { p \in 0..(width * height - 1) :
      /\ (p % width) \div 2 = (k % width) \div 2
      /\ (p \div width) \div 2 = (k \div width) \div 2 }

\* cbSum and crSum over the pixels S of a block
RECURSIVE SumCb(_, _)
SumCb(S, data) ==
  IF S = {} THEN 0
  ELSE LET p == CHOOSE q \in S : TRUE
       IN Cb(RGB(data, p)) + SumCb(S \ {p}, data)

RECURSIVE SumCr(_, _)
SumCr(S, data) ==
  IF S = {} THEN 0
  ELSE LET p == CHOOSE q \in S : TRUE
       IN Cr(RGB(data, p)) + SumCr(S \ {p}, data)

\* the three stores of the second pair of loops for the pixel k
ChromaPixel(data, width, height, k, strength) ==
  LET block == BlockOf(width, height, k)
      count == Cardinality(block)
      cbAvg == FixDiv(SumCb(block, data), count)
      crAvg == FixDiv(SumCr(block, data), count)
      rgb == RGB(data, k)
      yVal == 299000 * rgb[1] + 587000 * rgb[2] + 114000 * rgb[3]
      newR == yVal + FixMul(crAvg - 128 * FixOne, 1402000)
      newG == yVal - FixMul(cbAvg - 128 * FixOne, 344136)
                   - FixMul(crAvg - 128 * FixOne, 714136)
      newB == yVal + FixMul(cbAvg - 128 * FixOne, 1772000)
      mixed(v, new) == ToUint8Clamp(v * (FixOne - strength)
                                      + FixMul(new, strength), FixOne)
  IN <<mixed(rgb[1], newR), mixed(rgb[2], newG), mixed(rgb[3], newB)>>

\* the loops over the blocks, pixel by pixel: a block's sums are taken
\* before any of its pixels is written, and the blocks do not overlap, so
\* every sum and every r, g, b is read from the bytes as they came
RECURSIVE ChromaFrom(_, _, _, _, _, _)
ChromaFrom(buffer, data, width, height, strength, k) ==
  IF k = width * height THEN buffer
  ELSE ChromaFrom(WriteRGB(buffer, 4 * k,
                           ChromaPixel(data, width, height, k, strength)),
                  data, width, height, strength, k + 1)

applyChromaSubsampling(data, width, height, strength) ==
  ChromaFrom(data, data, width, height, strength, 0)

\* one plane of the bitmap: data[pi + c] for every pixel
Plane(data, width, height, c) ==
  [k \in 0..(width * height - 1) |-> data[4 * k + c]]

\* applySelectiveBlur over the three colour planes: output starts as a copy
\* of data and gets output[i], output[i + 1], output[i + 2] of every pixel
\* that is not skipped
RECURSIVE BlurChannelsFrom(_, _, _, _, _, _)
BlurChannelsFrom(output, data, width, height, edgeMap, k) ==
  IF k = width * height THEN output
  ELSE BlurChannelsFrom(
         IF EdgeSkipped(edgeMap[k]) THEN output
         ELSE WriteRGB(output, 4 * k,
                <<BlurredByte(Plane(data, width, height, 0), width, height, k),
                  BlurredByte(Plane(data, width, height, 1), width, height, k),
                  BlurredByte(Plane(data, width, height, 2), width, height, k)>>),
         data, width, height, edgeMap, k + 1)

applySelectiveBlurChannels(data, width, height, edgeMap) ==
  BlurChannelsFrom(data, data, width, height, edgeMap, 0)

\* applyColorQuantization over a whole bitmap: the loop i += 4
applyColorQuantizationPixels(data, levels) ==
  [j \in DOMAIN data |->
     applyColorQuantization(<<data[4 * (j \div 4)], data[4 * (j \div 4) + 1],
                              data[4 * (j \div 4) + 2],
                              data[4 * (j \div 4) + 3]>>, levels)[(j % 4) + 1]]

\* an edge map holds squares (see detectEdges); the maps given to
\* applyAdaptiveSharpening here hold squares of whole numbers, whose root
\* over 255 is the edge strength
SqrtOf(edge) == CHOOSE m \in 0..255 : m * m = edge

\* edgeMap[y * width + x], in millionths
edgeStrength(edge) == (SqrtOf(edge) * FixOne) \div 255

\* if (edgeStrength < 0.12) continue
SharpenSkipped(edge) == edge * 10000 < 144 * EdgeOne

\* output[i + c] for one channel of the pixel at the index at
SharpenedByte(data, width, at, c, edge, strength) ==
  LET current == data[at + c]
      neighbors4 == data[at - 4 + c] + data[at + 4 + c]
                      + data[at - width * 4 + c] + data[at + width * 4 + c]
      localStrength == FixMul(edgeStrength(edge), strength)
      value == current * FixOne
                 + FixMul((4 * current - neighbors4) * (FixOne \div 4),
                          localStrength)
  IN ToUint8Clamp(Min(255 * FixOne, Max(0, value)), FixOne)

SharpenedRGB(data, width, k, edge, strength) ==
  <<SharpenedByte(data, width, 4 * k, 0, edge, strength),
    SharpenedByte(data, width, 4 * k, 1, edge, strength),
    SharpenedByte(data, width, 4 * k, 2, edge, strength)>>

\* the loops y = 1 .. height - 2, x = 1 .. width - 2, pixel by pixel: the
\* values are read from data and stored into output, a copy of data
RECURSIVE SharpenFrom(_, _, _, _, _, _, _)
SharpenFrom(output, data, width, height, edgeMap, strength, k) ==
  IF k = width * height THEN output
  ELSE SharpenFrom(
         IF \/ ~Interior(width, height, k % width, k \div width)
            \/ SharpenSkipped(edgeMap[k])
         THEN output
         ELSE WriteRGB(output, 4 * k,
                       SharpenedRGB(data, width, k, edgeMap[k], strength)),
         data, width, height, edgeMap, strength, k + 1)

applyAdaptiveSharpening(data, width, height, edgeMap, strength) ==
  SharpenFrom(data, data, width, height, edgeMap, strength, 0)

\* the bitmap of the pixels px, byte by byte
Flatten(px) == [j \in 0..(4 * Cardinality(DOMAIN px) - 1) |->
                  px[j \div 4][(j % 4) + 1]]

\* pixels <<r, g, b, a>>: opaque, half transparent and transparent
StagePixels == {<<200, 100, 50, 255>>, <<10, 240, 90, 128>>, <<0, 0, 0, 0>>}
SharpenPixels == {<<200, 100, 50, 255>>, <<10, 240, 90, 128>>}
BlurPixels == {<<14, 0, 14, 255>>, <<0, 14, 0, 128>>}

\* 0.78 and 0.75 are what createOptimizedCanvas passes, 0.75 and 0.85 the
\* defaults
ChromaStrengths == {750000, 780000}
SharpenStrengths == {750000, 850000}

ChromaSizes == {<<1, 1>>, <<2, 2>>, <<3, 2>>}
SharpenSizes == {<<3, 3>>, <<4, 3>>}

\* edge strengths n / 255 on both sides of 0.12 and of 0.22
SharpenEdges == {0, 30, 31, 128, 255}
BlurEdges == {0, 56, 57, 255}

StageUnchanged ==
  UNCHANGED <<batch, emitter, pc, enc, file, opts, analysis, i, versions,
              blob, eng, ao, ret, events, stats, outcome, failed, ctrl>>

\* what a stage leaves: getImageData gave input, putImageData put data
StageCall(stage, width, height, input, edgeMap, data) ==
  [op |-> "preprocess", stage |-> stage, width |-> width, height |-> height,
   input |-> input, edgeMap |-> edgeMap, data |-> data]

\* an edge map with the same strength n / 255 at every pixel
FlatEdgeMap(n, width, height) == [k \in 0..(width * height - 1) |-> n * n]

\* AdvancedProcessor.applyChromaSubsampling(ctx, width, height, strength)
ApplyChromaSubsampling ==
  /\ util = NoCall
  /\ \E wh \in ChromaSizes, strength \in ChromaStrengths :
     \E px \in [0..(wh[1] * wh[2] - 1) -> StagePixels] :
       util' = StageCall("applyChromaSubsampling", wh[1], wh[2], Flatten(px),
                         FlatEdgeMap(0, wh[1], wh[2]),
                         applyChromaSubsampling(Flatten(px), wh[1], wh[2],
                                                strength))
  /\ StageUnchanged

\* AdvancedProcessor.applySelectiveBlur(ctx, 3, 3, edgeMap, 1.4) on a
\* bitmap of one colour, or of one colour but for one pixel
ApplySelectiveBlurChannels ==
  /\ util = NoCall
  /\ \E ground \in BlurPixels, other \in BlurPixels, at \in 0..8,
        n \in BlurEdges :
       LET data == Flatten([k \in 0..8 |-> IF k = at THEN other ELSE ground])
           edgeMap == FlatEdgeMap(n, 3, 3)
       IN util' = StageCall("applySelectiveBlur", 3, 3, data, edgeMap,
                            applySelectiveBlurChannels(data, 3, 3, edgeMap))
  /\ StageUnchanged

\* AdvancedProcessor.applyColorQuantization(ctx, width, height, levels)
ApplyColorQuantization ==
  /\ util = NoCall
  /\ \E wh \in ChromaSizes, levels \in Levels :
     \E px \in [0..(wh[1] * wh[2] - 1) -> StagePixels] :
       util' = StageCall("applyColorQuantization", wh[1], wh[2], Flatten(px),
                         FlatEdgeMap(0, wh[1], wh[2]),
                         applyColorQuantizationPixels(Flatten(px), levels))
  /\ StageUnchanged

\* AdvancedProcessor.applyAdaptiveSharpening(ctx, width, height, edgeMap,
\* strength)
ApplyAdaptiveSharpening ==
  /\ util = NoCall
  /\ \E wh \in SharpenSizes, strength \in SharpenStrengths,
        n \in SharpenEdges :
     \E px \in [0..(wh[1] * wh[2] - 1) -> SharpenPixels] :
       LET edgeMap == FlatEdgeMap(n, wh[1], wh[2])
       IN util' = StageCall("applyAdaptiveSharpening", wh[1], wh[2],
                            Flatten(px), edgeMap,
                            applyAdaptiveSharpening(Flatten(px), wh[1], wh[2],
                                                    edgeMap, strength))
  /\ StageUnchanged

(***************************************************************************)
(* CompressionEngine.createOptimizedCanvas, one statement per step.  The    *)
(* pixels are not held: writes lists the calls that have drawn on the       *)
(* canvas, which fixes its content for a given image, and an edge map is    *)
(* known by the content it was computed from.  passed lists the calls that  *)
(* were given an edge map, with the map they were given.                    *)
(***************************************************************************)
NoEdgeMap == [from |-> <<"none">>]

\* reports of the four image types
TypedAnalyses == Analyses \cup {analyze(Probe(40000, 1200, 5000, 0), TRUE)}

\* dimensions.scale = targetWidth / sourceWidth, around 0.88
Scales == {Frac(54, 125), Frac(87, 100), Frac(88, 100), Frac(89, 100),
           Frac(1, 1)}

NeedsSharpeningAnyType(an, scale) == scale.num * 100 < 88 * scale.den

\* analysis.imageType === "photo" && dimensions.scale < 0.88
NeedsSharpening(an, scale) ==
  an.imageType = "photo" /\ scale.num * 100 < 88 * scale.den

COC_Unchanged ==
  UNCHANGED <<batch, emitter, pc, enc, file, opts, analysis, i, versions, blob, eng, ao,
              ret, events, stats, outcome, failed, ctrl>>

COC_At(step) == util.op = "createOptimizedCanvas" /\ util.at = step

\* createOptimizedCanvas(img, dimensions, analysis): the canvas is created
CreateOptimizedCanvas ==
  /\ util = NoCall
  /\ \E an \in TypedAnalyses, scale \in Scales :
       util' = [op |-> "createOptimizedCanvas", at |-> "drawWithSmartCrop",
                analysis |-> an, scale |-> scale, writes |-> <<>>,
                edgeMap |-> NoEdgeMap, edgeCalls |-> 0, passed |-> <<>>]
  /\ COC_Unchanged

\* this.drawWithSmartCrop(ctx, img, dimensions)
COC_DrawWithSmartCrop ==
  /\ COC_At("drawWithSmartCrop")
  /\ util' = [util EXCEPT !.at = "detectEdges",
                !.writes = Append(@, "drawWithSmartCrop")]
  /\ COC_Unchanged

\* const edgeMap = AdvancedProcessor.detectEdges(ctx, ..): reads the canvas
COC_DetectEdges ==
  /\ COC_At("detectEdges")
  /\ util' = [util EXCEPT !.at = "applyChromaSubsampling",
                !.edgeMap = [from |-> util.writes],
                !.edgeCalls = @ + 1]
  /\ COC_Unchanged

\* AdvancedProcessor.applyChromaSubsampling(ctx, .., 0.78)
COC_ApplyChromaSubsampling ==
  /\ COC_At("applyChromaSubsampling")
  /\ util' = [util EXCEPT !.at = "applySelectiveBlur",
                !.writes = Append(@, "applyChromaSubsampling")]
  /\ COC_Unchanged

\* AdvancedProcessor.applySelectiveBlur(ctx, .., edgeMap, 1.4): reads the
\* map, writes the canvas
COC_ApplySelectiveBlur ==
  /\ COC_At("applySelectiveBlur")
  /\ util' = [util EXCEPT !.at = "applyColorQuantization",
                !.writes = Append(@, "applySelectiveBlur"),
                !.passed = Append(@, [to |-> "applySelectiveBlur",
                                      edgeMap |-> util.edgeMap])]
  /\ COC_Unchanged

\* AdvancedProcessor.applyColorQuantization(ctx, .., 218), then the test
\* that guards the sharpening
COC_ApplyColorQuantization ==
  /\ COC_At("applyColorQuantization")
  /\ util' = [util EXCEPT
                !.at = IF NeedsSharpening(util.analysis, util.scale)
                       THEN "applyAdaptiveSharpening" ELSE "return",
                !.writes = Append(@, "applyColorQuantization")]
  /\ COC_Unchanged

\* AdvancedProcessor.applyAdaptiveSharpening(ctx, .., edgeMap, 0.75): reads
\* the map, writes the canvas
COC_ApplyAdaptiveSharpening ==
  /\ COC_At("applyAdaptiveSharpening")
  /\ util' = [util EXCEPT !.at = "return",
                !.writes = Append(@, "applyAdaptiveSharpening"),
                !.passed = Append(@, [to |-> "applyAdaptiveSharpening",
                                      edgeMap |-> util.edgeMap])]
  /\ COC_Unchanged

\* return canvas
COC_Return ==
  /\ COC_At("return")
  /\ util' = [util EXCEPT !.at = "returned"]
  /\ COC_Unchanged

(***************************************************************************)
(* EventEmitter: the listeners of one event, in the order of the array      *)
(* this.events[event].  A listener is known by a number.                    *)
(***************************************************************************)
MaxListeners == 3
MaxEmits == 2

\* what a callback does when it is called: it returns, it throws, it calls
\* the unsubscribe function on() gave it, or it is the wrapper of once()
\* around a callback that returns or that throws
ListenerKinds == {"returns", "throws", "unsubscribes", "once", "onceThrows"}

\* kinds describes the callbacks made so far, calls counts the calls of
\* each, and emits counts the emits; snapshot and invoked are history of the
\* last emit: the array when emit was called and the callbacks it called, in
\* order
NoEmitter ==
  [listeners |-> <<>>, kinds |-> <<>>, calls |-> <<>>, emits |-> 0,
   snapshot |-> <<>>, invoked |-> <<>>]

\* on(event, callback): this.events[event].push(callback)
on(listeners, callback) == Append(listeners, callback)

\* off(event, callback): indexOf, and splice(index, 1) when index > -1
off(listeners, callback) ==
  IF \E k \in DOMAIN listeners : listeners[k] = callback
  THEN LET index == CHOOSE k \in DOMAIN listeners :
                      /\ listeners[k] = callback
                      /\ \A j \in 1..(k - 1) : listeners[j] # callback
       IN [k \in 1..(Len(listeners) - 1) |->
             IF k < index THEN listeners[k] ELSE listeners[k + 1]]
  ELSE listeners

\* what the call of the callback cb leaves of the array: a once wrapper
\* calls off after its callback returned, and not when it threw
afterCallback(listeners, kinds, cb) ==
  IF kinds[cb] \in {"unsubscribes", "once"} THEN off(listeners, cb)
  ELSE listeners

\* callbacks.forEach(cb => { try { cb(data) } catch .. }): Array.prototype
\* .forEach reads the length once and visits the indices 0 .. len - 1 of
\* the array as it is then: an index the array no longer has is skipped.
\* What a callback throws is caught and logged.
RECURSIVE forEach(_, _, _, _, _)
forEach(listeners, kinds, k, len, invoked) ==
  IF k >= len THEN [listeners |-> listeners, invoked |-> invoked]
  ELSE IF k < Len(listeners)
  THEN forEach(afterCallback(listeners, kinds, listeners[k + 1]), kinds,
               k + 1, len, Append(invoked, listeners[k + 1]))
  ELSE forEach(listeners, kinds, k + 1, len, invoked)

EmitterUnchanged ==
  UNCHANGED <<pc, enc, file, opts, analysis, i, versions, blob, eng, ao,
              ret, events, stats, outcome, failed, ctrl, util, batch>>

\* emitter.on(event, callback), or emitter.once(event, callback), with a
\* new callback
Emitter_On ==
  /\ Len(emitter.kinds) < MaxListeners
  /\ \E kind \in ListenerKinds :
       emitter' = [emitter EXCEPT
         !.kinds = Append(@, kind),
         !.calls = Append(@, 0),
         !.listeners = on(@, Len(emitter.kinds) + 1)]
  /\ EmitterUnchanged

\* emitter.off(event, callback) from outside any emit, with a callback
\* that was given to on: the wrapper of once is known to the wrapper alone
Emitter_Off ==
  /\ \E cb \in DOMAIN emitter.kinds :
       /\ emitter.kinds[cb] \notin {"once", "onceThrows"}
       /\ \E k \in DOMAIN emitter.listeners : emitter.listeners[k] = cb
       /\ emitter' = [emitter EXCEPT !.listeners = off(@, cb)]
  /\ EmitterUnchanged

\* emitter.emit(event, data), with every callback it calls
Emitter_Emit ==
  /\ emitter.emits < MaxEmits
  /\ LET done == forEach(emitter.listeners, emitter.kinds, 0,
                         Len(emitter.listeners), <<>>)
     IN emitter' = [emitter EXCEPT
          !.emits = @ + 1,
          !.snapshot = emitter.listeners,
          !.invoked = done.invoked,
          !.calls = [cb \in DOMAIN @ |->
                      @[cb] + Cardinality({k \in DOMAIN done.invoked :
                                             done.invoked[k] = cb})],
          !.listeners = done.listeners]
  /\ EmitterUnchanged

(***************************************************************************)
(* AppImageCompressor.processImage.  The frame of the call is held in util; *)
(* the compress job it starts is the one of UltraCompressPro.compress, with *)
(* the two presets of the constructor, which both name the ratio 4:3.  The  *)
(* onProgress callback returns normally.  A version is known by its         *)
(* versionIndex; its metadata width and height are the dimensions           *)
(* calculateDimensions gave for its preset.                                 *)
(***************************************************************************)
MaxCalls == 2

\* presetLarge and presetSmall
AppPresets ==
  <<[maxDimension |-> 864, targetSize |-> 24 * 1024],
    [maxDimension |-> 420, targetSize |-> 9 * 1024]>>

\* const targetAspectRatio = 4 / 3
AppAspectRatio == Frac(4, 3)

\* img.width and img.height of the decoded file: 4:3 and large, 4:3 and
\* smaller than the large preset, within 0.01 of 4:3, square, and 3:2
AppImages ==
  { [width |-> 2000, height |-> 1500], [width |-> 800, height |-> 600],
    [width |-> 1611, height |-> 1200], [width |-> 1000, height |-> 1000],
    [width |-> 1500, height |-> 1000] }

NoResult == [success |-> FALSE, error |-> "none", large |-> -1, small |-> -1]

AppCalls == IF util.op = "processImage" THEN util.call ELSE 0

\* variant of AppCatch: the catch block throws the error again
AppCatchRethrows(frame, error) ==
  [frame EXCEPT !.at = "settled", !.settled = "rejected"]

\* catch (error): return { success: false, error: error.message }
AppCatch(frame, error) ==
  [frame EXCEPT !.at = "settled", !.settled = "resolved",
                !.result = [NoResult EXCEPT !.error = error]]

\* v.metadata.width and v.metadata.height of a version of the job
AppMetadata(img, v) ==
  calculateDimensions(img.width, img.height,
                      opts.presets[v.versionIndex + 1].maxDimension,
                      AppAspectRatio)

\* result.versions.find(v => v.metadata.width === side ||
\* v.metadata.height === side): the versionIndex found, -1 for undefined
AppFind(img, side) ==
  LET hits == { k \in DOMAIN versions :
                  \/ AppMetadata(img, versions[k]).width = side
                  \/ AppMetadata(img, versions[k]).height = side }
  IN IF hits = {} THEN -1
     ELSE versions[CHOOSE k \in hits : \A j \in hits : k <= j].versionIndex

\* processImage(file, onProgress) up to the first await of the compress it
\* starts, or to its return when a check before that throws
App_ProcessImage ==
  /\ pc = "idle"
  /\ util.op = "processImage" => util.at = "settled"
  /\ util.op \in {"none", "processImage"}
  /\ AppCalls < MaxCalls
  /\ \E f \in Files, img \in AppImages :
       LET frame == [op |-> "processImage", at |-> "compress",
                     call |-> AppCalls + 1, image |-> img, input |-> f,
                     started |-> FALSE, settled |-> "pending",
                     result |-> NoResult]
       IN IF ~validateFile(f)
          THEN /\ util' = AppCatch(frame, "validation")
               /\ UNCHANGED <<pc, file, opts, events, outcome, failed,
                              emitter>>
          ELSE IF ~f.decodable
          THEN /\ util' = AppCatch(frame, "decode")
               /\ UNCHANGED <<pc, file, opts, events, outcome, failed,
                              emitter>>
          ELSE IF AspectDeviates(img, AppAspectRatio)
          THEN /\ util' = AppCatch(frame, "aspect")
               /\ UNCHANGED <<pc, file, opts, events, outcome, failed,
                              emitter>>
          ELSE /\ emitter' = [emitter EXCEPT
                                !.listeners = on(@, frame.call)]
               /\ util' = [frame EXCEPT !.started = TRUE]
               /\ file' = f
               /\ opts' = [quality |-> "aggressive", presets |-> AppPresets]
               /\ events' = <<Event("start", -1, -1)>>
               /\ outcome' = "pending"
               /\ failed' = {}
               /\ pc' = "decode"
  /\ UNCHANGED <<batch, enc, analysis, i, versions, blob, eng, ao, ret,
                 stats, ctrl>>

\* the compress of the call has settled: off, the checks of the result,
\* return; or the catch when compress rejected
App_AfterCompress ==
  /\ util.op = "processImage"
  /\ util.at = "compress"
  /\ pc = "done"
  /\ IF outcome = "rejected"
     THEN /\ util' = AppCatch(util, "compress")
          /\ emitter' = emitter
     ELSE /\ emitter' = [emitter EXCEPT !.listeners = off(@, util.call)]
          /\ util' =
               IF Len(versions) < 2 THEN AppCatch(util, "versions")
               ELSE IF AppFind(util.image, 864) = -1
                       \/ AppFind(util.image, 420) = -1
               THEN AppCatch(util, "missing")
               ELSE [util EXCEPT
                       !.at = "settled", !.settled = "resolved",
                       !.result = [success |-> TRUE, error |-> "none",
                                   large |-> AppFind(util.image, 864),
                                   small |-> AppFind(util.image, 420)]]
  /\ pc' = "idle"
  /\ UNCHANGED <<batch, enc, file, opts, analysis, i, versions, blob, eng,
                 ao, ret, events, stats, outcome, failed, ctrl>>

(***************************************************************************)
(* UltraCompressPro.compressMultiple and cancel.  The instance has one      *)
(* field _abortController: null (0) or the controller made by a call,       *)
(* known by the number of that call.  Every call has its own frame.  A      *)
(* compress started by a call is "flight" until it settles; a file is "ok"  *)
(* (its compress resolves) or "bad" (its compress rejects).                 *)
(* JavaScript runs one piece of code at a time: a call runs from its entry, *)
(* or from the resumption of its await, to its next await or its end        *)
(* without any other continuation in between.  Only a listener or callback  *)
(* it invokes on the way (BATCH_START, PROGRESS, onProgress,                *)
(* onFileComplete) can call cancel() or compressMultiple() in the middle;   *)
(* running is the stack of calls that are in such a run, "loop" the point    *)
(* after the listeners and before the loop condition.                       *)
(***************************************************************************)
MaxFiles == 2
MaxConcurrency == 2
MaxCancels == 2

Callers == {1, 2}

NoFrame ==
  [at |-> "idle", files |-> <<>>, concurrency |-> 0, stopOnError |-> FALSE,
   i |-> 0,
   status |-> <<>>, processed |-> 0, failed |-> 0, results |-> <<>>,
   error |-> "none", cancelled |-> FALSE, startedAtCancel |-> {}]

NoBatch ==
  [controller |-> 0, aborted |-> {}, cancels |-> 0, log |-> <<>>,
   running |-> <<>>,
   call |-> [c \in Callers |-> NoFrame]]


FileLists == UNION { [1..n -> {"ok", "bad"}] : n \in 1..MaxFiles }

\* options.concurrency is not validated: any integer may come
Concurrencies == -1..MaxConcurrency

\* what the first and the second caller pass
BatchInputs(c) ==
  IF c = 1 THEN FileLists \X Concurrencies \X BOOLEAN
  ELSE {<<[k \in 1..1 |-> "ok"], 1, FALSE>>}

\* Array.prototype.slice: a negative index counts from the end
SliceIndex(k, n) == IF k < 0 THEN Max(n + k, 0) ELSE Min(k, n)

\* the files of filesArray.slice(i, i + opts.concurrency), counted from 1
Chunk(f) ==
  { k \in 1..Len(f.files) :
      /\ k > SliceIndex(f.i, Len(f.files))
      /\ k <= SliceIndex(f.i + f.concurrency, Len(f.files)) }

\* the files of the call whose compress has been started
Started(f) == { k \in DOMAIN f.status : f.status[k] # "new" }
InFlight(f) == { k \in DOMAIN f.status : f.status[k] = "flight" }
InProgress(f) == f.at \in {"loop", "await"}

BatchUnchanged ==
  UNCHANGED <<pc, enc, file, opts, analysis, i, versions, blob, eng, ao,
              ret, events, stats, outcome, failed, ctrl, util, emitter>>

\* an event of the instance: its type, the call that emitted it (0 for
\* cancel) and, for PROGRESS, the field processed of its data
BatchEvent(type, c, processed) ==
  [type |-> type, call |-> c, processed |-> processed]

\* catch: ERROR is emitted and the error rethrown; finally: the field of
\* the instance is cleared, whichever call's controller it held
BatchThrow(c, error) ==
  [batch EXCEPT !.controller = 0,
                !.running = Tail(@),
                !.log = Append(@, BatchEvent("error", c, 0)),
                !.call[c].at = "rejected",
                !.call[c].error = error]

\* this._abortController.signal.aborted, read from the instance
AbortCheck(b) == b.controller \in b.aborted

\* compressMultiple(files, options) up to the loop: a new controller
\* replaces whatever the field held, BATCH_START is emitted
CompressMultiple(c) ==
  /\ batch.call[c].at = "idle"
  /\ \E in \in BatchInputs(c) :
       batch' = [batch EXCEPT
         !.controller = c,
         !.running = <<c>> \o @,
         !.log = Append(@, BatchEvent("batch_start", c, 0)),
         !.call[c] = [NoFrame EXCEPT
                        !.at = "loop", !.files = in[1],
                        !.concurrency = in[2],
                        !.stopOnError = in[3],
                        !.status = [k \in DOMAIN in[1] |-> "new"]]]
  /\ BatchUnchanged

\* one pass of the loop head: the cancellation check, then the compress
\* calls of the chunk are started together.  An index that has run below
\* -MaxFiles slices nothing, as every index below it; it is kept there.
Batch_StartChunk(c) ==
  LET f == batch.call[c] IN
  /\ f.at = "loop"
  /\ Head(batch.running) = c
  /\ f.i < Len(f.files)
  /\ batch' =
       IF batch.controller = 0 THEN BatchThrow(c, "TypeError")
       ELSE IF AbortCheck(batch)
         THEN BatchThrow(c, "Batch processing cancelled")
       ELSE [batch EXCEPT
               !.running = Tail(@),
               !.call[c].at = "await",
               !.call[c].status =
                 [k \in DOMAIN f.status |->
                    IF k \in Chunk(f) THEN "flight" ELSE f.status[k]]]
  /\ BatchUnchanged

\* a compress call in flight settles
Batch_CompressSettles(c) ==
  LET f == batch.call[c] IN
  /\ batch.running = <<>>
  /\ \E k \in InFlight(f) :
       batch' = [batch EXCEPT
         !.call[c].status[k] =
            IF f.files[k] = "ok" THEN "fulfilled" ELSE "rejected"]
  /\ BatchUnchanged

\* resultData of the files k .. to of the chunk, index being idx alone
ChunkResultsWithinChunk(f, k, to) ==
  [n \in 1..(to - k + 1) |->
     [index |-> (k + n - 2) - SliceIndex(f.i, Len(f.files)),
      success |-> f.status[k + n - 1] = "fulfilled"]]

\* resultData of the files k .. to of the chunk: index is i + idx
RECURSIVE ChunkResults(_, _, _)
ChunkResults(f, k, to) ==
  IF k > to THEN <<>>
  ELSE <<[index |-> f.i + (k - 1) - SliceIndex(f.i, Len(f.files)),
          success |-> f.status[k] = "fulfilled"]>>
       \o ChunkResults(f, k + 1, to)

\* Promise.allSettled resolved: batchResults.forEach counts, pushes and
\* emits PROGRESS for each result in the order of the chunk, and with
\* stopOnError throws at the first result that failed, which ends the call
\* in catch and finally; then i += concurrency
Batch_Collect(c) ==
  LET f == batch.call[c]
      chunk == Chunk(f)
      lo == SliceIndex(f.i, Len(f.files)) + 1
      hi == lo + Cardinality(chunk) - 1
      stops == f.stopOnError /\ \E k \in chunk : f.status[k] = "rejected"
      last == IF stops
              THEN CHOOSE k \in chunk :
                     /\ f.status[k] = "rejected"
                     /\ \A j \in chunk : j < k => f.status[j] # "rejected"
              ELSE hi
      rs == ChunkResults(f, lo, last)
      frame == [f EXCEPT
                  !.processed = @ + Len(rs),
                  !.failed = @ + Cardinality({ k \in lo..last :
                                                f.status[k] = "rejected" }),
                  !.results = @ \o rs]
      progress == [n \in 1..Len(rs) |->
                     BatchEvent("progress", c, f.processed + n)]
  IN
  /\ f.at = "await"
  /\ batch.running = <<>>
  /\ InFlight(f) = {}
  /\ batch' =
       IF stops
       THEN [batch EXCEPT
               !.controller = 0,
               !.log = Append(@ \o progress, BatchEvent("error", c, 0)),
               !.call[c] = [frame EXCEPT
                              !.at = "rejected",
                              !.error = "Processing stopped due to error"]]
       ELSE [batch EXCEPT
               !.running = <<c>>,
               !.log = @ \o progress,
               !.call[c] = [frame EXCEPT
                              !.at = "loop",
                              !.i = Max(f.i + f.concurrency,
                                        -(MaxFiles + 1))]]
  /\ BatchUnchanged

\* the loop is over: BATCH_COMPLETE, return; finally clears the field
Batch_Complete(c) ==
  LET f == batch.call[c] IN
  /\ f.at = "loop"
  /\ Head(batch.running) = c
  /\ ~(f.i < Len(f.files))
  /\ batch' = [batch EXCEPT
       !.controller = 0,
       !.running = Tail(@),
       !.log = Append(@, BatchEvent("batch_complete", c, 0)),
       !.call[c].at = "resolved"]
  /\ BatchUnchanged

\* cancel(): aborts the controller the field holds, if any, and emits
\* CANCEL.  History: every call in progress notes what it had started.
Cancel ==
  LET noted == [c \in Callers |->
                  IF InProgress(batch.call[c]) /\ ~batch.call[c].cancelled
                  THEN [batch.call[c] EXCEPT
                          !.cancelled = TRUE,
                          !.startedAtCancel = Started(batch.call[c])]
                  ELSE batch.call[c]]
  IN
  /\ batch.cancels < MaxCancels
  /\ batch' =
       IF batch.controller = 0
       THEN [batch EXCEPT !.cancels = @ + 1, !.call = noted]
       ELSE [batch EXCEPT
               !.cancels = @ + 1,
               !.aborted = @ \cup {batch.controller},
               !.log = Append(@, BatchEvent("cancel", 0, 0)),
               !.call = noted]
  /\ BatchUnchanged

(***************************************************************************)
(* The crop tool of main.js: cropState and its handlers.  A length in       *)
(* canvas pixels, and the scale, are held as whole numbers of CropUnit-ths: *)
(* a wheel event multiplies by ZOOM_SENSITIVITY = 11 / 10 or by its         *)
(* inverse, so after MaxWheels such events every value is still a whole     *)
(* number of units.  The state is held in util.                             *)
(***************************************************************************)
\* wheel events that change the scale
MaxWheels == 2

RECURSIVE Power(_, _)
Power(b, n) == IF n = 0 THEN 1 ELSE b * Power(b, n - 1)

CropUnit == Power(110, MaxWheels)

\* x * delta for delta = ZOOM_SENSITIVITY (zoom in) or 1 / ZOOM_SENSITIVITY
Zoom(x, zoomIn) == IF zoomIn THEN (x * 11) \div 10 ELSE (x * 10) \div 11

\* setupCropperCanvas() for an image and the clientWidth of the container
setupCropperCanvas(image, containerWidth) ==
  LET canvasWidth == Min(containerWidth, 800) * CropUnit
      canvasHeight == (canvasWidth * 3) \div 4
      boxWidth == (canvasWidth * 9) \div 10
      boxHeight == (boxWidth * 3) \div 4
      scale == IF 3 * image.width > 4 * image.height
               THEN boxHeight \div image.height
               ELSE boxWidth \div image.width
  IN [image |-> image,
      scale |-> scale,
      offset |-> [x |-> (canvasWidth - image.width * scale) \div 2,
                  y |-> (canvasHeight - image.height * scale) \div 2],
      isDragging |-> FALSE,
      dragStart |-> [x |-> 0, y |-> 0],
      cropBox |-> [x |-> (canvasWidth - boxWidth) \div 2,
                   y |-> (canvasHeight - boxHeight) \div 2,
                   width |-> boxWidth, height |-> boxHeight]]

onPointerDown(cropState, pos) ==
  [cropState EXCEPT !.isDragging = TRUE, !.dragStart = pos]

onPointerMove(cropState, pos) ==
  IF ~cropState.isDragging THEN cropState
  ELSE [cropState EXCEPT
          !.offset.x = @ + (pos.x - cropState.dragStart.x),
          !.offset.y = @ + (pos.y - cropState.dragStart.y),
          !.dragStart = pos]

onPointerUp(cropState) ==
  IF ~cropState.isDragging THEN cropState
  ELSE LET scaledWidth == cropState.image.width * cropState.scale
           scaledHeight == cropState.image.height * cropState.scale
           cropBox == cropState.cropBox
       IN [cropState EXCEPT
             !.isDragging = FALSE,
             !.offset.x = Min(cropBox.x,
                              Max(@, cropBox.x + cropBox.width - scaledWidth)),
             !.offset.y = Min(cropBox.y,
                              Max(@, cropBox.y + cropBox.height
                                       - scaledHeight))]

\* newScale < minScale, minScale being the larger of cropBox.width /
\* image.width and cropBox.height / image.height
BelowMinScale(cropState, newScale) ==
  \/ newScale * cropState.image.width < cropState.cropBox.width
  \/ newScale * cropState.image.height < cropState.cropBox.height

\* onWheel(e) with the pointer at pos; zoomIn is e.deltaY <= 0
onWheel(cropState, pos, zoomIn) ==
  LET newScale == Zoom(cropState.scale, zoomIn)
  IN IF BelowMinScale(cropState, newScale) THEN cropState
     ELSE onPointerUp(
            [cropState EXCEPT
               !.offset.x = pos.x - Zoom(pos.x - @, zoomIn),
               !.offset.y = pos.y - Zoom(pos.y - @, zoomIn),
               !.scale = newScale])

\* the source rectangle of handleCropConfirm, times scale
handleCropConfirm(cropState) ==
  [sourceX |-> cropState.cropBox.x - cropState.offset.x,
   sourceY |-> cropState.cropBox.y - cropState.offset.y,
   sourceWidth |-> cropState.cropBox.width,
   sourceHeight |-> cropState.cropBox.height]

\* images of the aspect of the crop box, wider and taller
CropImages == {[width |-> 144, height |-> 108], [width |-> 216, height |-> 108],
               [width |-> 72, height |-> 108]}

\* the container is 80 pixels wide: the canvas is 80 x 60 and the crop box
\* 72 x 54 at (4, 3)
ContainerWidths == {80}

\* where the pointer is: a corner of the canvas, the middle, a corner of
\* the crop box
PointerPositions ==
  { [x |-> p[1] * CropUnit, y |-> p[2] * CropUnit] :
      p \in {<<0, 0>>, <<40, 30>>, <<76, 57>>} }

CropUnchanged ==
  UNCHANGED <<batch, emitter, pc, enc, file, opts, analysis, i, versions,
              blob, eng, ao, ret, events, stats, outcome, failed, ctrl>>

CropperOpen == util.op = "cropper" /\ util.source = <<>>

\* img.onload of initCropper: the image is set and the modal shown
InitCropper ==
  /\ util = NoCall
  /\ \E image \in CropImages, containerWidth \in ContainerWidths :
       util' = [op |-> "cropper", wheels |-> 0, source |-> <<>>,
                cropState |-> setupCropperCanvas(image, containerWidth)]
  /\ CropUnchanged

\* mousedown or touchstart on the canvas, when no button or finger is
\* down yet
OnPointerDown ==
  /\ CropperOpen
  /\ ~util.cropState.isDragging
  /\ \E pos \in PointerPositions :
       util' = [util EXCEPT !.cropState = onPointerDown(@, pos)]
  /\ CropUnchanged

\* mousemove or touchmove on the canvas
OnPointerMove ==
  /\ CropperOpen
  /\ \E pos \in PointerPositions :
       util' = [util EXCEPT !.cropState = onPointerMove(@, pos)]
  /\ CropUnchanged

\* mouseup or touchend on the window, mouseleave on the canvas
OnPointerUp ==
  /\ CropperOpen
  /\ util' = [util EXCEPT !.cropState = onPointerUp(@)]
  /\ CropUnchanged

\* wheel on the canvas
OnWheel ==
  /\ CropperOpen
  /\ \E pos \in PointerPositions, zoomIn \in BOOLEAN :
       LET next == onWheel(util.cropState, pos, zoomIn)
       IN /\ next.scale # util.cropState.scale => util.wheels < MaxWheels
          /\ util' = [util EXCEPT
               !.cropState = next,
               !.wheels = IF next.scale # util.cropState.scale
                          THEN @ + 1 ELSE @]
  /\ CropUnchanged

\* click on the confirm button: the source rectangle is drawn and the
\* modal closed
HandleCropConfirm ==
  /\ CropperOpen
  /\ ~util.cropState.isDragging
  /\ util' = [util EXCEPT !.source = handleCropConfirm(util.cropState)]
  /\ CropUnchanged

(***************************************************************************)
(* Specifications.                                                          *)
(***************************************************************************)
InitInstance ==
  /\ pc = "idle"
  /\ file = NoFile
  /\ opts = NoOpts
  /\ analysis = NoAnalysis
  /\ i = 0
  /\ versions = <<>>
  /\ blob = NoBlob
  /\ eng = NoEng
  /\ ao = NoAO
  /\ ret = NoBlob
  /\ events = <<>>
  /\ stats = [totalProcessed |-> 0, totalOriginalSize |-> 0,
              totalCompressedSize |-> 0]
  /\ outcome = "pending"
  /\ failed = {}
  /\ ctrl = NoBlob
  /\ util = NoCall
  /\ batch = NoBatch
  /\ emitter = NoEmitter

EngineSteps ==
  \/ Engine_Probe
  \/ Engine_Fallback
  \/ Engine_Return
  \/ Engine_EncodeFails
  \/ AO_AfterCompress
  \/ AO_LastResort
  \/ AO_LastResortFails

\* one compress job on a fresh instance, over the stub encoders
Init == InitInstance /\ enc \in StubEncoders

Next ==
  \/ Compress
  \/ Decode
  \/ PV_Canvas
  \/ PV_CanvasThrows
  \/ PV_AfterCompress
  \/ PV_AfterAO
  \/ PV_Push
  \/ PV_Emit
  \/ Finish
  \/ EngineSteps

Spec == Init /\ [][Next]_vars

\* the same job where every step that can be taken is taken in the end: the
\* event loop runs every continuation, and the promises of the platform
\* (arrayBuffer, the image load, canvas.toBlob) settle; over the encoder
\* of constant size, which is under the target of the large preset and
\* over the targets of the smaller ones
InitLive ==
  /\ InitInstance
  /\ enc \in { e \in StubEncoders : e.gain = 0 }

SpecLive == InitLive /\ [][Next]_vars /\ WF_vars(Next)

\* calls of the engine on its own, over an encoder that may answer anything
InitEngine == InitInstance /\ enc = AnyEncoder

NextEngine ==
  \/ DirectCompress
  \/ DirectAdvancedOptimize
  \/ DirectSettle
  \/ EngineSteps

SpecEngine == InitEngine /\ [][NextEngine]_vars

\* calls of ImageAnalyzer.analyze on their own
NextAnalyzer ==
  \/ Analyze
  \/ AnalyzeOther

SpecAnalyzer == InitEngine /\ [][NextAnalyzer]_vars

\* calls of the canvas helpers on their own
NextCanvas ==
  \/ DetectEdges
  \/ Quantize
  \/ QuantizeAgain
  \/ DrawWithSmartCrop
  \/ CalculateDimensions
  \/ ScaleCanvas
  \/ CreateOptimizedCanvas
  \/ COC_DrawWithSmartCrop
  \/ COC_DetectEdges
  \/ COC_ApplyChromaSubsampling
  \/ COC_ApplySelectiveBlur
  \/ COC_ApplyColorQuantization
  \/ COC_ApplyAdaptiveSharpening
  \/ COC_Return

\* calls of AppImageCompressor.processImage, one after the other, over the
\* stub encoders
NextApp ==
  \/ App_ProcessImage
  \/ Decode
  \/ PV_Canvas
  \/ PV_CanvasThrows
  \/ PV_AfterCompress
  \/ PV_AfterAO
  \/ PV_Push
  \/ PV_Emit
  \/ Finish
  \/ EngineSteps
  \/ App_AfterCompress

SpecApp == Init /\ [][NextApp]_vars

\* an EventEmitter used on its own: one event, its callbacks and emits
NextEmitter ==
  \/ Emitter_On
  \/ Emitter_Off
  \/ Emitter_Emit

SpecEmitter == InitEngine /\ [][NextEmitter]_vars

SpecCanvas == InitEngine /\ [][NextCanvas]_vars

\* AdvancedProcessor.applySelectiveBlur called on bitmaps of its own
NextBlur == ApplySelectiveBlur

SpecBlur == InitEngine /\ [][NextBlur]_vars

\* calls of the four preprocessing stages on a canvas of their own
NextStages ==
  \/ ApplyChromaSubsampling
  \/ ApplySelectiveBlurChannels
  \/ ApplyColorQuantization
  \/ ApplyAdaptiveSharpening

SpecStages == InitEngine /\ [][NextStages]_vars

\* the crop tool with one image
NextCrop ==
  \/ InitCropper
  \/ OnPointerDown
  \/ OnPointerMove
  \/ OnPointerUp
  \/ OnWheel
  \/ HandleCropConfirm

SpecCrop == InitEngine /\ [][NextCrop]_vars

\* compressMultiple calls and cancel on one instance
NextBatch ==
  \/ \E c \in Callers : CompressMultiple(c)
  \/ \E c \in Callers : Batch_StartChunk(c)
  \/ \E c \in Callers : Batch_CompressSettles(c)
  \/ \E c \in Callers : Batch_Collect(c)
  \/ \E c \in Callers : Batch_Complete(c)
  \/ Cancel

SpecBatch == InitEngine /\ [][NextBatch]_vars

\* the steps of one compressMultiple call after its entry
BatchSteps(c) ==
  \/ Batch_StartChunk(c)
  \/ Batch_CompressSettles(c)
  \/ Batch_Collect(c)
  \/ Batch_Complete(c)

\* the same calls where every compress settles and the job queue of the
\* event loop runs every continuation that is ready, in the end: a step of
\* a call that is ready again and again is taken
SpecBatchLive ==
  InitEngine /\ [][NextBatch]_vars /\ \A c \in Callers : SF_vars(BatchSteps(c))

(***************************************************************************)
(* Properties.                                                              *)
(***************************************************************************)
Adj == getQualityAdjustment(eng.mode)
StrictStub == enc.kind = "stub" /\ enc.gain >= 1
VersionEvents == SelectSeq(events, LAMBDA e : e.type = "version_complete")
JobTarget == opts.presets[i + 1].targetSize
ValidDecodable == validateFile(file) /\ file.decodable

\* C1: under an encoder whose size strictly grows with the quality, a
\* compress call in which some probe met size <= targetSize x tolerance
\* returns the blob of the highest quality it probed that met the bound.
C1_ReturnsHighestFeasible ==
  (pc = "engine_ret" /\ StrictStub /\ eng.hiOk >= 0) =>
    /\ ret.quality = eng.hiOk
    /\ ret.origin = "probe"
    /\ ret.scale = eng.scale
    /\ MeetsTolerance(ret.size, eng.targetSize, eng.mode)

\* a search that saw probes fail and probes succeed, and has returned
C1_Witness ==
  /\ pc = "engine_ret"
  /\ StrictStub
  /\ eng.hiOk > eng.floor0
  /\ eng.maxQuality < InitialMaxQuality(analysis.recommendedQuality, Adj)
  /\ eng.iterations >= 8

\* C2: one compress call never issues more than profile.iterations encodes,
\* the encode after the loop included, whatever the encoder answers.
C2_CallsWithinBudget ==
  /\ eng.calls <= Adj.iterations
  /\ eng.iterations <= eng.calls

\* MAXIMUM (budget 10): eight probes failed, then the encode at minQuality
C2_Witness ==
  /\ pc = "engine_ret"
  /\ eng.mode = "maximum"
  /\ eng.calls = 9
  /\ eng.iterations = 8

\* C3: when no probe met the tolerance, compress makes exactly one more
\* encode, at minQuality, which is still the initial floor
\* max(0.02, recommendedQuality - range), and returns that blob whatever its
\* size; when some probe met it, there is no further encode.
C3_BestEffortFallback ==
  pc = "engine_ret" =>
    IF eng.hiOk < 0
    THEN /\ ret.origin = "fallback"
         /\ eng.calls = eng.iterations + 1
         /\ ret.quality = eng.minQuality
         /\ eng.minQuality = eng.floor0
         /\ eng.floor0 = Max(Q(2), Q(analysis.recommendedQuality - Adj.range))
    ELSE /\ ret.origin = "probe"
         /\ eng.calls = eng.iterations

\* the best-effort blob is returned although it is over the target
C3_Witness ==
  /\ pc = "engine_ret"
  /\ eng.hiOk < 0
  /\ ret.origin = "fallback"
  /\ ret.size > eng.targetSize
  /\ eng.iterations >= 1

\* C4: advancedOptimize runs the controller with the EXTREME profile at the
\* ratios of the ladder in strictly descending order, nothing is encoded
\* after a ratio gave a result <= targetSize, and a blob the ladder returns
\* has size <= targetSize.
C4_LadderFirstFit ==
  /\ \A k \in 1 .. Len(scales) - 1 : scales[k] > scales[k + 1]
  /\ scales[1] = 94 /\ scales[Len(scales)] = 35
  /\ \A k \in 1 .. Len(ao.log) :
       /\ ao.log[k].scale = scales[k]
       /\ ao.log[k].mode = "extreme"
       /\ k < Len(ao.log) => ~ ao.log[k].ok
  /\ (pc \in {"engine", "engine_ret"} /\ eng.caller = "ao") =>
       /\ eng.scale = scales[ao.idx]
       /\ eng.mode = "extreme"
       /\ Len(ao.log) = ao.idx - 1
       /\ \A k \in 1 .. Len(ao.log) : ~ ao.log[k].ok
  /\ pc = "ao_last" => \A k \in 1 .. Len(ao.log) : ~ ao.log[k].ok
  /\ (pc = "ao_ret" /\ ret.origin # "lastresort") =>
       /\ ret.size <= ao.targetSize
       /\ ao.log[Len(ao.log)].ok
       /\ ret.scale = ao.log[Len(ao.log)].scale

\* the ladder returned at its fourth ratio, after three failed
C4_Witness ==
  /\ pc = "ao_ret"
  /\ ret.origin # "lastresort"
  /\ Len(ao.log) = 4
  /\ ret.scale = 82

\* C5: over an encoder with a size floor above the target, advancedOptimize
\* visits the 16 ratios of the ladder once each, in order, and then returns
\* one encode at scale 0.32 and quality 0.02 whatever its size; the
\* last-resort encode comes only after all 16 ratios failed, and the number
\* of encodes of the call is bounded.
C5_LastResortAfterLadder ==
  /\ (pc = "ao_ret" /\ enc.kind = "stub" /\ enc.floor > ao.targetSize) =>
       ret.origin = "lastresort"
  /\ (pc = "ao_last" \/ (pc = "ao_ret" /\ ret.origin = "lastresort")) =>
       /\ Len(ao.log) = 16
       /\ \A k \in 1 .. 16 : ao.log[k].scale = scales[k] /\ ~ ao.log[k].ok
  /\ (pc = "ao_ret" /\ ret.origin = "lastresort") =>
       /\ ret.scale = 32
       /\ ret.quality = Q(2)
  /\ ao.calls <= 16 * getQualityAdjustment("extreme").iterations + 1

\* the last resort returned a blob over the target
C5_Witness ==
  /\ pc = "ao_ret"
  /\ enc.kind = "stub"
  /\ enc.floor > ao.targetSize
  /\ ret.origin = "lastresort"
  /\ ret.size > ao.targetSize
  /\ ao.calls > 16

\* C6: _processVersions runs advancedOptimize for a preset exactly when the
\* controller's blob is larger than preset.targetSize x 1.12; a blob within
\* the slack is the version's blob, unchanged.
C6_FallbackIffOverSlack ==
  /\ (ao.caller = "pv") => ctrl.size * 100 > JobTarget * 112
  /\ pc = "pv_push" =>
       /\ ctrl.scale = 100
       /\ (blob.scale # 100) <=> (ctrl.size * 100 > JobTarget * 112)
       /\ (ctrl.size * 100 <= JobTarget * 112) => blob = ctrl

\* a controller blob over the target and within the slack is kept
C6_Witness ==
  /\ pc = "pv_push"
  /\ ctrl.size > JobTarget
  /\ ctrl.size * 100 <= JobTarget * 112
  /\ blob = ctrl

\* C7: a version that _processVersions returns has blob size <=
\* preset.targetSize x 1.15 unless the last-resort encode of advancedOptimize
\* made it; a blob over the target does not fail its preset.
C7_VersionsWithinSlack ==
  /\ \A k \in 1 .. Len(versions) :
       \/ versions[k].blob.size * 100
            <= opts.presets[versions[k].versionIndex + 1].targetSize * 115
       \/ versions[k].blob.origin = "lastresort"
  /\ (pc = "pv_push" /\ blob.size > JobTarget) => i \notin failed
  /\ (pc = "pv_emit" /\ blob.size > JobTarget) =>
       versions[Len(versions)] = [versionIndex |-> i, blob |-> blob]

\* a job resolved with a last-resort version over target x 1.15
C7_Witness ==
  /\ pc = "done"
  /\ outcome = "resolved"
  /\ \E k \in 1 .. Len(versions) :
       /\ versions[k].blob.origin = "lastresort"
       /\ versions[k].blob.size * 100
            > opts.presets[versions[k].versionIndex + 1].targetSize * 115

\* C8: a failure inside one iteration of _processVersions is caught there:
\* the loop goes on to the next preset, and the list holds exactly the
\* versions of the presets that did not fail, in preset order.
C8_FailuresSkipped ==
  /\ failed \subseteq 0 .. i - 1
  /\ { versions[k].versionIndex : k \in 1 .. Len(versions) }
       = ((0 .. i - 1) \cup (IF pc = "pv_emit" THEN {i} ELSE {})) \ failed
  /\ \A k \in 1 .. Len(versions) - 1 :
       versions[k].versionIndex < versions[k + 1].versionIndex
  /\ Len(versions) <= Len(opts.presets)
  /\ (pc = "done" /\ ValidDecodable) => i = Len(opts.presets)

\* the first of two presets failed and the second gave a version
C8_Witness ==
  /\ pc = "done"
  /\ Len(opts.presets) = 2
  /\ failed = {0}
  /\ Len(versions) = 1
  /\ versions[1].versionIndex = 1

\* C9: compress on a valid, decodable file resolves whenever some preset
\* gave a version, and rejects, emitting ERROR, only when none did.
C9_RejectsOnlyWithoutVersions ==
  (pc = "done" /\ ValidDecodable) =>
    /\ outcome \in {"resolved", "rejected"}
    /\ Len(versions) >= 1 =>
         /\ outcome = "resolved"
         /\ { versions[k].versionIndex : k \in 1 .. Len(versions) }
              = (0 .. Len(opts.presets) - 1) \ failed
         /\ events[Len(events)].type = "complete"
         /\ \A k \in 1 .. Len(events) : events[k].type # "error"
    /\ outcome = "rejected" =>
         /\ Len(versions) = 0
         /\ events[Len(events)].type = "error"
         /\ \A k \in 1 .. Len(events) : events[k].type # "complete"

\* one preset failed, the other gave a version, and the job resolved
C9_Witness ==
  /\ pc = "done"
  /\ ValidDecodable
  /\ outcome = "resolved"
  /\ failed # {}
  /\ Len(versions) = 1

\* C10: one VERSION_COMPLETE event per version of the list and none for a
\* preset that failed, in increasing preset order, each emitted after its
\* version was appended, with versionIndex the preset's index and
\* totalVersions the number of presets.
C10_OneEventPerVersion ==
  /\ Len(VersionEvents) = Len(versions) - (IF pc = "pv_emit" THEN 1 ELSE 0)
  /\ \A k \in 1 .. Len(VersionEvents) :
       /\ VersionEvents[k].versionIndex = versions[k].versionIndex
       /\ VersionEvents[k].versionIndex \notin failed
       /\ VersionEvents[k].totalVersions = Len(opts.presets)
  /\ \A k \in 1 .. Len(VersionEvents) - 1 :
       VersionEvents[k].versionIndex < VersionEvents[k + 1].versionIndex

\* the only event of the kind is the one of the second preset
C10_Witness ==
  /\ pc = "done"
  /\ failed = {0}
  /\ Len(VersionEvents) = 1
  /\ VersionEvents[1] = Event("version_complete", 1, 2)

(***************************************************************************)
(* ImageAnalyzer (SpecAnalyzer).                                            *)
(***************************************************************************)
\* the reports of the state, each with the probe it was computed from
Reported ==
  IF util.op # "analyze" THEN {}
  ELSE {[probe |-> util.probe, report |-> util.report]}
       \cup (IF util.report2 = NoAnalysis THEN {}
             ELSE {[probe |-> util.probe2, report |-> util.report2]})

Exact(p) == complexityOf(p.edges, p.totalPixels)

\* C11: analyze classifies by first match: fewer than 256 unique colours is
\* graphic; otherwise complexity below 5 is simple; otherwise complexity
\* above 20 is complex; otherwise photo.  Exactly 256 colours is not graphic,
\* complexity exactly 5 is not simple, exactly 20 is not complex, and every
\* probe gets exactly one of the four types.
C11_ClassifiesByFirstMatch ==
  \A a \in Reported :
    LET u == a.probe.uniqueColors
        c == Exact(a.probe)
        t == a.report.imageType
    IN /\ t \in {"graphic", "simple", "complex", "photo"}
       /\ (t = "graphic") <=> (u < 256)
       /\ (t = "simple") <=> (u >= 256 /\ c < 5 * CUnit)
       /\ (t = "complex") <=> (u >= 256 /\ c > 20 * CUnit)
       /\ (t = "photo") <=> (u >= 256 /\ c >= 5 * CUnit /\ c <= 20 * CUnit)

\* one probe of exactly 256 colours and complexity exactly 5, another of
\* complexity exactly 20: both photo
C11_Witness ==
  /\ util.op = "analyze"
  /\ util.report2 # NoAnalysis
  /\ util.probe.uniqueColors = 256
  /\ Exact(util.probe) = 5 * CUnit
  /\ util.report.imageType = "photo"
  /\ Exact(util.probe2) = 20 * CUnit
  /\ util.report2.imageType = "photo"

\* the branch of calculateRecommendedQuality a report's quality came from
Tier(a) ==
  IF a.report.imageType \in {"graphic", "simple"} THEN "flat"
  ELSE IF a.report.hasTransparency /\ Exact(a.probe) < 10 * CUnit
    THEN "transparent"
  ELSE IF Exact(a.probe) > 20 * CUnit THEN "complex"
  ELSE "default"

\* C12: calculateRecommendedQuality keeps the ordering graphic/simple <=
\* transparent with complexity below 10 <= default: the quality of a graphic
\* or simple image is the lowest value of the table, the quality of a
\* transparent low-complexity image is no lower than that, and the mid-range
\* default of the other images is no lower than the transparent value.
C12_OrderingPreserved ==
  \A a, b \in Reported :
    /\ Tier(a) = "flat" =>
         a.report.recommendedQuality <= b.report.recommendedQuality
    /\ (Tier(a) = "transparent" /\ Tier(b) = "default") =>
         a.report.recommendedQuality <= b.report.recommendedQuality

\* C13: two reports of analyze made under the same WebP capability that
\* agree on the fields complexity (the value rounded to two decimals),
\* imageType and hasTransparency agree on recommendedQuality and on
\* suggestedFormat.
C13_QualityAndFormatDetermined ==
  \A a, b \in Reported :
    (/\ a.report.complexity = b.report.complexity
     /\ a.report.imageType = b.report.imageType
     /\ a.report.hasTransparency = b.report.hasTransparency)
    => /\ a.report.recommendedQuality = b.report.recommendedQuality
       /\ a.report.suggestedFormat = b.report.suggestedFormat

\* C14: the compressibility score is 50, plus 30, 20 or 10 for fewer than
\* 256, 1000 or 5000 unique colours (first match only), plus 20 or 10 for a
\* complexity below 5 or 10 (first match only), capped at 100; it lies in
\* 50..100, and a single-colour image is graphic and scores exactly 100.
C14_CompressibilityScore ==
  \A a \in Reported :
    LET u == a.probe.uniqueColors
        c == Exact(a.probe)
        score == a.report.compressibility
    IN /\ \E byColors \in {0, 10, 20, 30}, byComplexity \in {0, 10, 20} :
            /\ (byColors = 30) <=> (u < 256)
            /\ (byColors = 20) <=> (u >= 256 /\ u < 1000)
            /\ (byColors = 10) <=> (u >= 1000 /\ u < 5000)
            /\ (byComplexity = 20) <=> (c < 5 * CUnit)
            /\ (byComplexity = 10) <=> (c >= 5 * CUnit /\ c < 10 * CUnit)
            /\ score = Min(100, 50 + byColors + byComplexity)
       /\ score >= 50
       /\ score <= 100
       /\ u = 1 => (a.report.imageType = "graphic" /\ score = 100)

\* a single-colour image scoring 100 next to a busy image of 5000 colours
\* scoring the base 50
C14_Witness ==
  /\ util.op = "analyze"
  /\ util.report2 # NoAnalysis
  /\ util.probe.uniqueColors = 1
  /\ util.report.imageType = "graphic"
  /\ util.report.compressibility = 100
  /\ util.probe2.uniqueColors = 5000
  /\ Exact(util.probe2) = 10 * CUnit
  /\ util.report2.compressibility = 50

(***************************************************************************)
(* Canvas helpers (SpecCanvas).                                             *)
(***************************************************************************)
\* C15: every value of the edge map of detectEdges lies in [0, 1], every
\* pixel of the first or last row or column has the value 0, and the map of
\* a bitmap narrower or shorter than 3 pixels is 0 everywhere.
C15_EdgeMapInUnitRange ==
  util.op = "detectEdges" =>
    /\ DOMAIN util.edgeMap = 0..(util.width * util.height - 1)
    /\ \A k \in DOMAIN util.edgeMap :
         LET x == k % util.width
             y == k \div util.width
         IN /\ util.edgeMap[k] >= 0
            /\ util.edgeMap[k] <= EdgeOne
            /\ (x = 0 \/ y = 0 \/ x = util.width - 1 \/ y = util.height - 1)
                 => util.edgeMap[k] = 0
    /\ (util.width < 3 \/ util.height < 3)
         => \A k \in DOMAIN util.edgeMap : util.edgeMap[k] = 0

\* a bitmap with two inner pixels: the gradient of one is above 1 and is
\* clamped, that of the other is strictly between 0 and 1
C15_Witness ==
  /\ util.op = "detectEdges"
  /\ util.width = 4
  /\ util.height = 3
  /\ Gradient2(util.data, 4, 1, 1) > EdgeOne
  /\ util.edgeMap[5] = EdgeOne
  /\ util.edgeMap[6] > 0
  /\ util.edgeMap[6] < EdgeOne

\* C16: applyColorQuantization is idempotent: quantizing an already
\* quantized buffer with the same levels, rounding and clamping to 8 bits
\* included, leaves every byte as it is.
C16_QuantizationIdempotent ==
  (util.op = "applyColorQuantization" /\ util.passes = 2)
    => util.data = util.prev

\* a second pass with levels 218 over a pixel the first pass changed and
\* whose red byte the first pass left one below a multiple of the step
C16_Witness ==
  /\ util.op = "applyColorQuantization"
  /\ util.passes = 2
  /\ util.levels = 218
  /\ util.input # util.prev
  /\ util.prev[1] * 218 < MathRound(util.prev[1] * 218, 256) * 256
  /\ util.data = util.prev

\* C17: the source rectangle (sx, sy, sw, sh) of drawWithSmartCrop has the
\* aspect ratio of the target (sw x height = sh x width), is centred in the
\* source and lies inside it, whether the source is wider or taller than
\* the target.
C17_CropKeepsTargetAspect ==
  util.op = "drawWithSmartCrop" =>
    LET d == util.dims
        r == util.rect
        W == Frac(d.sourceWidth, 1)
        H == Frac(d.sourceHeight, 1)
    IN /\ FracEq(FracTimes(r.sw, d.height), FracTimes(r.sh, d.width))
       /\ FracEq(FracAdd(FracTimes(r.sx, 2), r.sw), W)
       /\ FracEq(FracAdd(FracTimes(r.sy, 2), r.sh), H)
       /\ FracLe(Frac(0, 1), r.sx)
       /\ FracLe(Frac(0, 1), r.sy)
       /\ FracLe(FracAdd(r.sx, r.sw), W)
       /\ FracLe(FracAdd(r.sy, r.sh), H)

\* a source wider than the target: columns are cut on both sides, by a
\* fraction of a pixel, and no row is
C17_Witness ==
  /\ util.op = "drawWithSmartCrop"
  /\ util.dims.sourceWidth * util.dims.height
       > util.dims.width * util.dims.sourceHeight
  /\ util.rect.sx.num > 0
  /\ util.rect.sx.num % util.rect.sx.den # 0
  /\ FracEq(util.rect.sh, Frac(util.dims.sourceHeight, 1))

\* the source's longer side and the side of the result that came from it
LongerSource(d) ==
  IF d.sourceWidth > d.sourceHeight THEN d.sourceWidth ELSE d.sourceHeight
ShorterSource(d) ==
  IF d.sourceWidth > d.sourceHeight THEN d.sourceHeight ELSE d.sourceWidth
LongerTarget(d) ==
  IF d.sourceWidth > d.sourceHeight THEN d.width ELSE d.height
ShorterTarget(d) ==
  IF d.sourceWidth > d.sourceHeight THEN d.height ELSE d.width

\* a width and a height whose ratio is within 0.01 of the preset's
WithinAspect(w, h, ratio) ==
  /\ h > 0
  /\ Abs(w * ratio.den - ratio.num * h) * 100 <= h * ratio.den

\* C18 as stated: for every source size calculateDimensions scales the
\* longer source side to preset.maxDimension and derives the other side by
\* the source aspect ratio, rounded (read where no aspect ratio is forced).
C18_LongerSideToMaxDimension ==
  (util.op = "calculateDimensions"
     /\ util.preset.aspectRatio = NoAspect)
    => LET d == util.dimensions
       IN /\ LongerTarget(d) = util.preset.maxDimension
          /\ ShorterTarget(d)
               = MathRound(util.preset.maxDimension * ShorterSource(d),
                           LongerSource(d))

\* C18, amended: the longer source side is scaled down to maxDimension when
\* it exceeds it and is kept otherwise, and the other side follows by the
\* source aspect ratio, rounded, unless the preset's aspect ratio then
\* forces one side; 2000 x 1500 with maxDimension 864 and aspect ratio 4/3
\* gives 864 x 648.
C18_LongerSideFitted ==
  util.op = "calculateDimensions" =>
    LET d == util.dimensions
        long == IF LongerSource(d) > util.preset.maxDimension
                THEN util.preset.maxDimension ELSE LongerSource(d)
        short == MathRound(long * ShorterSource(d), LongerSource(d))
        wide == d.sourceWidth > d.sourceHeight
        free == \/ util.preset.aspectRatio = NoAspect
                \/ WithinAspect(IF wide THEN long ELSE short,
                                IF wide THEN short ELSE long,
                                util.preset.aspectRatio)
    IN /\ free => (LongerTarget(d) = long /\ ShorterTarget(d) = short)
       /\ (/\ d.sourceWidth = 2000
           /\ d.sourceHeight = 1500
           /\ util.preset = [maxDimension |-> 864,
                             aspectRatio |-> Frac(4, 3)])
            => (d.width = 864 /\ d.height = 648)

\* the 2000 x 1500 source under the preset large
C18_Witness ==
  /\ util.op = "calculateDimensions"
  /\ util.dimensions.sourceWidth = 2000
  /\ util.dimensions.sourceHeight = 1500
  /\ util.preset = [maxDimension |-> 864, aspectRatio |-> Frac(4, 3)]
  /\ util.dimensions.width = 864
  /\ util.dimensions.height = 648

\* C19: every bitmap handed to the pipeline or the encoder has width > 0
\* and height > 0: calculateDimensions returns width >= 1 and height >= 1
\* for every source of at least 1 x 1 and every preset, and so has every
\* canvas scaleCanvas derives in the fallback ladder, down to ratio 0.32.
C19_BitmapsNotEmpty ==
  /\ util.op = "calculateDimensions"
       => (util.dimensions.width >= 1 /\ util.dimensions.height >= 1)
  /\ util.op = "scaleCanvas" => (util.width >= 1 /\ util.height >= 1)

Pipeline ==
  <<"drawWithSmartCrop", "applyChromaSubsampling", "applySelectiveBlur",
    "applyColorQuantization", "applyAdaptiveSharpening">>

IsPrefix(a, b) == Len(a) <= Len(b) /\ a = SubSeq(b, 1, Len(a))

\* C20: createOptimizedCanvas computes the edge map exactly once, after the
\* smart crop and before any stage changes the bitmap; then chroma
\* subsampling, selective blur, colour quantization and, only for a photo
\* with scale < 0.88, adaptive sharpening run in that order; blur and
\* sharpening are given that same edge map, which no stage writes.
C20_EdgeMapOnceThenStagesInOrder ==
  util.op = "createOptimizedCanvas" =>
    LET sharpen == /\ util.analysis.imageType = "photo"
                   /\ util.scale.num * 100 < 88 * util.scale.den
        ran(stage) == \E k \in DOMAIN util.writes : util.writes[k] = stage
        cropped == [from |-> <<"drawWithSmartCrop">>]
    IN /\ IsPrefix(util.writes, Pipeline)
       /\ util.edgeCalls <= 1
       /\ ran("applyChromaSubsampling") => util.edgeCalls = 1
       /\ util.edgeCalls = 1 => util.edgeMap = cropped
       /\ ran("applyAdaptiveSharpening") => sharpen
       /\ util.at = "returned" =>
            /\ util.edgeCalls = 1
            /\ Len(util.writes) = IF sharpen THEN 5 ELSE 4
            /\ util.passed =
                 IF sharpen
                 THEN <<[to |-> "applySelectiveBlur", edgeMap |-> cropped],
                        [to |-> "applyAdaptiveSharpening",
                         edgeMap |-> cropped]>>
                 ELSE <<[to |-> "applySelectiveBlur", edgeMap |-> cropped]>>
       /\ \A k \in DOMAIN util.passed : util.passed[k].edgeMap = cropped

\* a photo at scale 0.87 went through all five writes, and the map of the
\* cropped bitmap went to the blur and to the sharpening
C20_Witness ==
  /\ util.op = "createOptimizedCanvas"
  /\ util.at = "returned"
  /\ util.analysis.imageType = "photo"
  /\ util.scale = Frac(87, 100)
  /\ util.writes = Pipeline
  /\ util.edgeCalls = 1
  /\ Len(util.passed) = 2

(***************************************************************************)
(* compressMultiple and cancel (SpecBatch).                                 *)
(***************************************************************************)
\* C21: during a compressMultiple call at most opts.concurrency of its
\* compress calls are in flight at any moment, and the compress calls of a
\* chunk are started only after every compress of the previous chunk has
\* settled.
C21_InFlightWithinConcurrency ==
  \A c \in Callers :
    LET f == batch.call[c]
    IN InFlight(f) # {} =>
         /\ Cardinality(InFlight(f)) <= f.concurrency
         /\ f.at = "await"
         /\ InFlight(f) \subseteq Chunk(f)

\* C22: once cancel() has been called while a compressMultiple call is in
\* progress, that call starts no further compress (the files started are
\* those that were started when cancel was called), and every compress that
\* was started settles as its file decides: fulfilled for a file that
\* compresses, rejected for one that does not.
C22_NoStartAfterCancel ==
  \A c \in Callers :
    LET f == batch.call[c]
    IN f.cancelled =>
         /\ Started(f) = f.startedAtCancel
         /\ \A k \in Started(f) :
              f.status[k] \in {"flight",
                               IF f.files[k] = "ok" THEN "fulfilled"
                               ELSE "rejected"}

\* C23: a compress whose input fails validateFile (null, not a Blob, empty,
\* or larger than maxFileSize) ends rejected with exactly one ERROR event
\* and no START event, without decoding or encoding anything and with the
\* cumulative stats as they were.
C23_InvalidInputFatal ==
  (pc = "done" /\ ~validateFile(file)) =>
    /\ outcome = "rejected"
    /\ events = <<Event("error", -1, -1)>>
    /\ analysis = NoAnalysis
    /\ versions = <<>>
    /\ blob = NoBlob
    /\ stats = [totalProcessed |-> 0, totalOriginalSize |-> 0,
                totalCompressedSize |-> 0]

\* C24: in every step of CompressionEngine.compress, for every quality mode
\* and every recommendedQuality of the analyzer: on entry minQuality is
\* max(0.02, base - range) and maxQuality is min(0.8, base + boost); a pass
\* of the loop moves exactly one of the two bounds to the midpoint that was
\* probed, minQuality never down and maxQuality never up; minQuality <=
\* maxQuality in every state of the search; and every quality that is
\* encoded lies in [0.02, 0.8].
C24_SearchBoundsConverge ==
  [][ LET adj == getQualityAdjustment(eng'.mode)
          mid == (eng.minQuality + eng.maxQuality) \div 2
      IN /\ (pc # "engine" /\ pc' = "engine") =>
              /\ eng'.minQuality =
                   Max(Q(2), Q(analysis'.recommendedQuality - adj.range))
              /\ eng'.maxQuality =
                   Min(Q(80), Q(analysis'.recommendedQuality + adj.boost))
              /\ eng'.iterations = 0
         /\ (pc = "engine" /\ pc' = "engine") =>
              /\ eng'.iterations = eng.iterations + 1
              /\ \/ eng'.minQuality = mid /\ eng'.maxQuality = eng.maxQuality
                 \/ eng'.maxQuality = mid /\ eng'.minQuality = eng.minQuality
              /\ eng.minQuality < mid /\ mid < eng.maxQuality
              /\ eng'.minQuality >= eng.minQuality
              /\ eng'.maxQuality <= eng.maxQuality
              /\ Q(2) <= mid /\ mid <= Q(80)
              /\ eng'.bestBlob # eng.bestBlob => eng'.bestBlob.quality = mid
         /\ pc' = "engine" => eng'.minQuality <= eng'.maxQuality
         /\ (pc = "engine" /\ pc' = "engine_ret") =>
              /\ Q(2) <= ret'.quality /\ ret'.quality <= Q(80)
              /\ ret'.origin = "fallback" => ret'.quality = eng.minQuality
    ]_vars

\* a search in which both bounds have moved
C24_Witness ==
  /\ pc = "engine"
  /\ eng.iterations >= 2
  /\ eng.minQuality > eng.floor0
  /\ eng.maxQuality <
       Min(Q(80), Q(analysis.recommendedQuality
                    + getQualityAdjustment(eng.mode).boost))
  /\ analysis.recommendedQuality = 48
  /\ eng.floor0 = Q(2)

\* the dimensions calculateDimensions computes first, before the preset's
\* aspect ratio is looked at
FirstComputed ==
  naturalDimensions(util.dimensions.sourceWidth, util.dimensions.sourceHeight,
                    util.preset.maxDimension)

\* the width is the whole pixel nearest to height * ratio, or the height
\* the one nearest to width / ratio
WidthRoundedToRatio(d, ratio) ==
  Abs(d.width * ratio.den - d.height * ratio.num) * 2 <= ratio.den
HeightRoundedToRatio(d, ratio) ==
  Abs(d.height * ratio.num - d.width * ratio.den) * 2 <= ratio.num

\* neither returned dimension exceeds maxDimension or its source dimension
WithinLimits(d) ==
  /\ d.width <= util.preset.maxDimension
  /\ d.height <= util.preset.maxDimension
  /\ d.width <= d.sourceWidth
  /\ d.height <= d.sourceHeight

\* C25 as stated: when the preset has an aspect ratio and the first
\* computed width/height deviates from it by more than 0.01, exactly one of
\* the two returned dimensions differs from the first computed one, it is
\* smaller, and it is the other dimension times (or divided by) the ratio,
\* rounded to a whole pixel; when the deviation is at most 0.01 both are as
\* first computed; no returned dimension exceeds maxDimension or its source
\* dimension.
C25_ExactlyOneDimensionReduced ==
  util.op = "calculateDimensions" =>
    LET d == util.dimensions
        n == FirstComputed
        ratio == util.preset.aspectRatio
    IN /\ WithinLimits(d)
       /\ ratio # NoAspect =>
            IF WithinAspect(n.width, n.height, ratio)
            THEN d.width = n.width /\ d.height = n.height
            ELSE \/ /\ d.width < n.width
                    /\ d.height = n.height
                    /\ WidthRoundedToRatio(d, ratio)
                 \/ /\ d.height < n.height
                    /\ d.width = n.width
                    /\ HeightRoundedToRatio(d, ratio)

\* C25, amended: when the first computed width/height deviates from the
\* preset's aspect ratio by more than 0.01, one dimension is computed again
\* from the other and the ratio, rounded to a whole pixel, and is never
\* larger than it was (it is the same where the rounding gives the old
\* value back, as for 3 x 2 under 4:3); the other dimension is kept; when
\* the deviation is at most 0.01 both are as first computed; no returned
\* dimension exceeds maxDimension or its source dimension.
C25_OneDimensionRecomputed ==
  util.op = "calculateDimensions" =>
    LET d == util.dimensions
        n == FirstComputed
        ratio == util.preset.aspectRatio
    IN /\ WithinLimits(d)
       /\ ratio # NoAspect =>
            IF WithinAspect(n.width, n.height, ratio)
            THEN d.width = n.width /\ d.height = n.height
            ELSE \/ /\ d.width <= n.width
                    /\ d.height = n.height
                    /\ WidthRoundedToRatio(d, ratio)
                    /\ n.height = 0 \/ n.width * ratio.den > ratio.num * n.height
                 \/ /\ d.height <= n.height
                    /\ d.width = n.width
                    /\ HeightRoundedToRatio(d, ratio)
                    /\ n.width * ratio.den < ratio.num * n.height

\* 2000 x 1000 under hd (1280, 16:9): first 1280 x 640, the width is then
\* reduced to 1138
C25_Witness ==
  /\ util.op = "calculateDimensions"
  /\ util.dimensions.sourceWidth = 2000
  /\ util.dimensions.sourceHeight = 1000
  /\ util.preset = [maxDimension |-> 1280, aspectRatio |-> Frac(16, 9)]
  /\ FirstComputed = [width |-> 1280, height |-> 640]
  /\ util.dimensions.width = 1138
  /\ util.dimensions.height = 640

\* the weight the kernel gives, along one axis, to the bitmap position q
\* seen from the position p of a bitmap of n positions: the taps whose
\* clamped coordinate is q
AxisWeight(p, q, n) ==
  LET RECURSIVE Taps(_)
      Taps(t) == IF t > halfKernel THEN 0
                 ELSE (IF Min(n - 1, Max(0, p + t)) = q
                       THEN GaussianTaps[Abs(t) + 1] ELSE 0) + Taps(t + 1)
  IN Taps(-halfKernel)

\* the weighted sum of the buffer around pixel k and the sum of the weights
WeightedMean(buffer, width, height, k) ==
  LET RECURSIVE Sum(_)
      Sum(q) == IF q = width * height THEN [r |-> 0, w |-> 0]
                ELSE LET rest == Sum(q + 1)
                         wq == AxisWeight(k % width, q % width, width)
                               * AxisWeight(k \div width, q \div width, height)
                     IN [r |-> buffer[q] * wq + rest.r, w |-> wq + rest.w]
  IN Sum(0)

\* C26: applySelectiveBlur leaves every pixel whose edge value is at or
\* above 0.22 as it was, and gives every pixel below 0.22 the weighted mean
\* of the buffer as it was before the call (never of bytes the call itself
\* has written), the coordinates of the kernel clamped to the bitmap and
\* the mean rounded to a byte.
C26_BlurOnlyBelowThreshold ==
  util.op = "applySelectiveBlur" =>
    \A k \in DOMAIN util.input :
      IF util.edgeMap[k] * 10000 >= 484 * EdgeOne
      THEN util.data[k] = util.input[k]
      ELSE LET m == WeightedMean(util.input, util.width, util.height, k)
           IN /\ 2 * Abs(util.data[k] * m.w - m.r) <= m.w
              /\ util.data[k] \in 0..255

\* a bitmap with an edge pixel that is kept next to pixels the blur changed
C26_Witness ==
  /\ util.op = "applySelectiveBlur"
  /\ \E k \in DOMAIN util.input :
       /\ EdgeSkipped(util.edgeMap[k])
       /\ util.data[k] = util.input[k]
  /\ \E k \in DOMAIN util.input :
       /\ ~EdgeSkipped(util.edgeMap[k])
       /\ util.data[k] # util.input[k]
       /\ k > 0
       /\ util.data[k - 1] # util.input[k - 1]

\* C27: once a processImage call has settled, however it ended, the
\* version_complete listener it registered is not registered any more, so
\* no listener is registered while no call is running.
C27_ListenerRemoved ==
  (util.op = "processImage" /\ util.at = "settled") =>
    emitter.listeners = <<>>

Emitted(type) == { k \in DOMAIN events : events[k].type = type }

\* C29: a compress call that has emitted START goes on to emit exactly one
\* of COMPLETE and ERROR, once, as its last event, and then settles:
\* resolved after COMPLETE, rejected after ERROR; before that it has
\* emitted neither; and START comes before every VERSION_COMPLETE.
C29_StartThenOneOutcome ==
  /\ [](Emitted("start") # {} =>
          /\ Emitted("start") = {1}
          /\ \A k \in Emitted("version_complete") : k > 1
          /\ pc # "done" =>
               /\ Emitted("complete") \cup Emitted("error") = {}
               /\ outcome = "pending"
          /\ pc = "done" =>
               /\ Emitted("complete") \cup Emitted("error") = {Len(events)}
               /\ events[Len(events)].type = "complete" => outcome = "resolved"
               /\ events[Len(events)].type = "error" => outcome = "rejected")
  /\ (Emitted("start") # {}) ~> (pc = "done" /\ outcome # "pending")

\* a job that emitted START, two VERSION_COMPLETE and COMPLETE, and resolved
C29_Witness ==
  /\ pc = "done"
  /\ outcome = "resolved"
  /\ Len(events) = 4
  /\ events[1].type = "start"
  /\ events[2].type = "version_complete"
  /\ events[3].type = "version_complete"
  /\ events[4].type = "complete"

\* C30: an emit has called every callback that was in the array when emit
\* was called, each exactly once and in the order of registration, whether
\* callbacks threw or unsubscribed (as a once wrapper does) on the way.
C30_EmitCallsEveryListenerOnce ==
  emitter.emits > 0 => emitter.invoked = emitter.snapshot

\* the callbacks that were given to once, by the number of their wrapper
OnceListeners ==
  {cb \in DOMAIN emitter.kinds : emitter.kinds[cb] \in {"once", "onceThrows"}}

Registered(cb) == \E k \in DOMAIN emitter.listeners : emitter.listeners[k] = cb

\* C31: a listener registered with once is called at most once over all the
\* emits of the event, whether its callback returns or throws, and is no
\* longer in the array once it has been called
C31_OnceAtMostOnce ==
  \A cb \in OnceListeners :
    /\ emitter.calls[cb] <= 1
    /\ emitter.calls[cb] >= 1 => ~Registered(cb)

\* the events of a kind that the call c has emitted
BatchLogged(c, type) ==
  {k \in DOMAIN batch.log :
     batch.log[k].type = type /\ batch.log[k].call = c}

\* C32: a compressMultiple call during which cancel() was called never
\* resolves and never emits BATCH_COMPLETE, and when it has settled it has
\* rejected with 'Batch processing cancelled'; a cancel() called while no
\* compressMultiple call is in progress changes nothing of the instance and
\* emits nothing.
C32_CancelRejectsBatch ==
  /\ [](\A c \in Callers :
         LET f == batch.call[c]
         IN f.cancelled =>
              /\ f.at # "resolved"
              /\ BatchLogged(c, "batch_complete") = {}
              /\ f.at = "rejected" =>
                   f.error = "Batch processing cancelled")
  /\ [][(/\ \A c \in Callers : ~InProgress(batch.call[c])
         /\ batch'.cancels = batch.cancels + 1)
        => /\ batch'.log = batch.log
           /\ batch'.controller = batch.controller
           /\ batch'.aborted = batch.aborted
           /\ batch'.call = batch.call]_vars

\* C33: with two compressMultiple calls on one instance, no call fails
\* because its cancellation check found the field _abortController cleared
\* (the TypeError of reading null.signal), and while a call is in progress
\* the field holds a controller, so that cancel() can still reach the call.
C33_OverlappingCallsIndependent ==
  \A c \in Callers :
    LET f == batch.call[c]
    IN /\ f.error # "TypeError"
       /\ InProgress(f) => batch.controller # 0

\* C34: every compressMultiple call settles in the end, resolved or
\* rejected, whatever its files and its concurrency option (0 and negative
\* values included), when every compress it starts settles.
C34_BatchSettles ==
  \A c \in Callers :
    (batch.call[c].at # "idle")
      ~> (batch.call[c].at \in {"resolved", "rejected"})

\* the field processed of the PROGRESS events of the call c, in the order
\* of their emission
ProgressOf(c) ==
  LET own == SelectSeq(batch.log,
                       LAMBDA e : e.type = "progress" /\ e.call = c)
  IN [k \in DOMAIN own |-> own[k].processed]

C36_StatsCountResolvedJobs ==
  pc = "done" =>
    /\ outcome = "rejected" =>
         stats = [totalProcessed |-> 0, totalOriginalSize |-> 0,
                  totalCompressedSize |-> 0]
    /\ outcome = "resolved" =>
         /\ stats.totalProcessed = 1
         /\ stats.totalCompressedSize = SumSizes(versions)

\* the pixels a stage has changed
StageChanged ==
  { k \in 0..(util.width * util.height - 1) :
      \E c \in 0..3 : util.data[4 * k + c] # util.input[4 * k + c] }

\* C37: chroma subsampling, selective blur, colour quantization and
\* adaptive sharpening each leave the bitmap with the bytes of width *
\* height pixels, every alpha byte as it was and every byte within 0..255;
\* adaptive sharpening changes no pixel of the border and no pixel whose
\* edge strength is below 0.12.
C37_StagesKeepAlphaAndSize ==
  util.op = "preprocess" =>
    /\ DOMAIN util.data = 0..(4 * util.width * util.height - 1)
    /\ DOMAIN util.data = DOMAIN util.input
    /\ \A k \in 0..(util.width * util.height - 1) :
         util.data[4 * k + 3] = util.input[4 * k + 3]
    /\ \A j \in DOMAIN util.data : util.data[j] \in 0..255
    /\ util.stage = "applyAdaptiveSharpening" =>
         \A k \in StageChanged :
           /\ Interior(util.width, util.height, k % util.width,
                       k \div util.width)
           /\ util.edgeMap[k] * 10000 >= 144 * EdgeOne

\* adaptive sharpening has changed the colour of one inner pixel of a 4 x 3
\* bitmap and left the other, under an edge map that is above the
\* threshold at every pixel, the border included; the pixel it changed is
\* half transparent
C37_Witness ==
  /\ util.op = "preprocess"
  /\ util.stage = "applyAdaptiveSharpening"
  /\ util.width = 4
  /\ \A k \in DOMAIN util.edgeMap : util.edgeMap[k] = 128 * 128
  /\ StageChanged = {5}
  /\ util.input[4 * 5 + 3] = 128

\* the scaled image covers the crop box on both axes
CoversCropBox(cropState) ==
  LET cropBox == cropState.cropBox
  IN /\ cropState.offset.x <= cropBox.x
     /\ cropState.offset.y <= cropBox.y
     /\ cropState.offset.x + cropState.image.width * cropState.scale
          >= cropBox.x + cropBox.width
     /\ cropState.offset.y + cropState.image.height * cropState.scale
          >= cropBox.y + cropBox.height

\* C38: in the crop tool, whenever no drag is in progress the scaled image
\* covers the crop box on both axes, the scale is not below the minimum
\* that covers the crop box, and the source rectangle of handleCropConfirm
\* lies inside the image.
C38_ImageCoversCropBox ==
  util.op = "cropper" =>
    /\ ~BelowMinScale(util.cropState, util.cropState.scale)
    /\ ~util.cropState.isDragging => CoversCropBox(util.cropState)
    /\ util.source # <<>> =>
         /\ util.source.sourceX >= 0
         /\ util.source.sourceY >= 0
         /\ util.source.sourceX + util.source.sourceWidth
              <= util.cropState.image.width * util.cropState.scale
         /\ util.source.sourceY + util.source.sourceHeight
              <= util.cropState.image.height * util.cropState.scale

====
